---- MODULE Spec2Model ----
(***************************************************************************)
(* Port Finder: the nearest-port resolver of the location service, its     *)
(* Redis cache, the cache synchronizer that consumes port events, and the  *)
(* port service (store + outbox) that produces them.                       *)
(*                                                                         *)
(* Geometry.  The h3-js grid is a library; it is modelled on one meridian: *)
(* a coordinate is an integer number of 0.0005-degree steps of latitude,   *)
(* a cell is a run of CellUnits steps, gridDistance is the difference of   *)
(* cell numbers and gridDisk(c, k) is the cells c-k .. c+k.  Distances are *)
(* kept in metres so that every comparison of the code is an integer one.  *)
(* The cells have the pitch of the resolution-7 grid the code asks h3-js   *)
(* for: hexagons of 1.22 km edge, centres 2.11 km apart.                   *)
(*                                                                         *)
(* Events.  An outbox row and its relay are one step: the rows are relayed *)
(* oldest first, so each queue holds its events in the order written.      *)
(* Cache entries do not expire within a behaviour.                         *)
(*                                                                         *)
(* Specifications.  Spec and QuerySpec run the services with handlers and  *)
(* cache operations that complete and succeed; WarmSpec adds the warmup.   *)
(* FailSpec lets the cache store fail during a step, RaceSpec lets two     *)
(* handler runs overlap inside cachePort, OutboxSpec is the outbox table   *)
(* with its two jobs and a broker that comes and goes, RingsSpec applies   *)
(* calculateRequiredH3Rings to a range of radii.  WriteSpec takes the     *)
(* port service's writes save by save, EdgeSpec puts ports near the edges  *)
(* of their cells, WarmRaceSpec runs the Created handler between the       *)
(* awaits of a warmup, JobsSpec runs the outbox jobs await by await with   *)
(* overlapping runs and failing saves.                                     *)
(***************************************************************************)
EXTENDS Integers, Sequences, FiniteSets, TLC

(* ------------------------------ bounds --------------------------------- *)
MaxEvents == 3                    \* outbox rows ever written
MaxRadiusKm == 40                 \* largest finite radius handed to requiredRings
MaxOutbox == 3                    \* rows of the outbox table
MaxJobRows == 1                   \* rows of the outbox while its jobs run step by step
MaxSaveFailures == 1              \* saves of an outbox row that fail

(* ------------------------- program constants --------------------------- *)
MaxRings == 10                    \* hard ring cap
EdgeHm == 28                      \* average hexagon edge, 2.8 km, in 100 m
CellUnits == 38                   \* one resolution-7 cell, 2.11 km, in steps
MaxLatitude == 180000             \* 90 degrees of latitude, in steps
StepDm == 556                     \* one 0.0005-degree step, 55.6 m, in 0.1 m
INF == 999999                     \* Number.POSITIVE_INFINITY

(* ------------------------------ domains -------------------------------- *)
PortIds == {1, 2}                 \* the uuids, in the order they are issued
NoId == 0
PortCoords == {2, 100}            \* cells 0 and 2
QueryCoords == {1}                \* cell 0, and the memo bucket of coordinate 2
Radii == {INF, 50}                \* radius bounds a query may carry (km)

\* the domains of QuerySpec: queries from two coordinates of one memo bucket
\* and one cell, on ports
\*     2   in the query cell, 1.9 km away
\*    30   in the query cell, 0.3 km away
\*    40   in the next cell, 0.2 km away
\*   215   5 cells away, 9.95 km from 36 and 10.01 km from 35
\*   576   15 cells away, 30 km away
FarPortCoords == {2, 30, 40, 215, 576}
FarQueryCoords == {35, 36}
FarRadii == {INF, 50, 10}
\* the domains of EdgeSpec: a query from the low edge of cell 2 on ports
\*   151   in the next cell (cell 3), 4.17 km away
\*    37   two cells away (cell 0), 2.17 km away
EdgePortCoords == {37, 151}
EdgeQueryCoords == {76}
EdgeRadii == {INF, 3}
ListRadii == {1, 10, 50}          \* radii of findPortsInRadius (km)
RingRadii == (0..MaxRadiusKm) \cup {INF}   \* radii of calculateRequiredH3Rings

Abs(x) == IF x < 0 THEN 0 - x ELSE x
Min(a, b) == IF a <= b THEN a ELSE b
IsFinite(r) == r # INF

(* ------------------- LocationCalculationService ------------------------ *)
coordinateToH3(coordinate) == coordinate \div CellUnits

calculateH3Distance(h3Index1, h3Index2) == Abs(h3Index1 - h3Index2)

\* metres
calculateDistance(coord1, coord2) == (Abs(coord1 - coord2) * StepDm) \div 10

\* the disk as the array gridDisk returns it: centre first, ring by ring
RECURSIVE DiskFrom(_, _, _)
DiskFrom(h3Index, k, radius) ==
    IF k > radius THEN <<>>
    ELSE (IF k = 0 THEN <<h3Index>> ELSE <<h3Index - k, h3Index + k>>)
         \o DiskFrom(h3Index, k + 1, radius)

getH3Neighbors(h3Index, radius) == DiskFrom(h3Index, 0, radius)

\* calculateRequiredH3Rings without Math.min(ringsNeeded, 10)
calculateRequiredH3Rings_Uncapped(radiusKm) ==
    (radiusKm * 10 + (EdgeHm - 1)) \div EdgeHm

calculateRequiredH3Rings(radiusKm) ==
    Min((radiusKm * 10 + (EdgeHm - 1)) \div EdgeHm, MaxRings)

AllCoords == PortCoords \cup QueryCoords \cup FarPortCoords \cup FarQueryCoords
                \cup EdgePortCoords \cup EdgeQueryCoords

Cells == {coordinateToH3(c) : c \in AllCoords}

(* --------------------------- record shapes ----------------------------- *)
NoRow == [exists |-> FALSE, coordinate |-> 0, h3Index |-> 0, isActive |-> FALSE]
NoPort == [id |-> NoId, coordinate |-> 0, h3Index |-> 0, isActive |-> FALSE,
           code |-> 0, country |-> 0]
NoMatch == [portId |-> NoId, coordinate |-> 0, distanceKm |-> 0,
            h3Distance |-> 0, h3Index |-> 0]

\* the strings of a port: its code is unique, like its id; one country
Blank == 0                        \* ''
CodeOf(id) == id
CountryOf(id) == 1

CachedPort(id, coordinate, h3Index) ==
    [id |-> id, coordinate |-> coordinate, h3Index |-> h3Index, isActive |-> TRUE,
     code |-> CodeOf(id), country |-> CountryOf(id)]

\* payload.code || '' and payload.country || '' on the payload of a
\* PortUpdatedEvent, which carries id, name and coordinate only
UpdatedPort(id, coordinate, h3Index) ==
    [CachedPort(id, coordinate, h3Index) EXCEPT !.code = Blank, !.country = Blank]

RECURSIVE SelectSeqBy(_, _)
SelectSeqBy(s, id) ==
    IF s = <<>> THEN <<>>
    ELSE (IF Head(s).id # id THEN <<Head(s)>> ELSE <<>>) \o SelectSeqBy(Tail(s), id)

RECURSIVE ActiveOnly(_)
ActiveOnly(s) ==
    IF s = <<>> THEN <<>>
    ELSE (IF Head(s).isActive THEN <<Head(s)>> ELSE <<>>) \o ActiveOnly(Tail(s))

IdsOf(s) == {s[i].id : i \in 1..Len(s)}

(* --------------------------- PortCacheService -------------------------- *)
\* A cache is the triple of the three key families of the Redis store:
\*   pc  port:{id}            -> snapshot          (NoPort when absent)
\*   h3  h3:{index}:ports     -> list of snapshots (<<>> when absent)
\*   np  nearest:{lat}:{r}    -> match             (NoMatch when absent)
InvalidatedRadii == <<50, 100, 200, 500>>

Round3(coordinate) == (coordinate + 1) \div 2     \* Math.round(x * 1000) / 1000

getNearestPortCacheKey(coordinate, radiusKm) == <<Round3(coordinate), radiusKm>>

\* the memo keys in use: a key is written for the coordinate of a query only
MemoKeys == {getNearestPortCacheKey(c, r) :
                c \in QueryCoords \cup FarQueryCoords \cup EdgeQueryCoords,
                r \in Radii \cup FarRadii \cup EdgeRadii}

getPortsByH3Index(h3, h3Index) ==
    IF h3Index \in DOMAIN h3 THEN ActiveOnly(h3[h3Index]) ELSE <<>>

getPort(pcache, portId) == pcache[portId]

\* cachePort that pushes the port without filtering its id out of the entry
cachePort_NoFilter(pcache, h3, port) ==
    LET existingPorts == getPortsByH3Index(h3, port.h3Index)
        updatedPorts == Append(existingPorts, port)
    IN  << [pcache EXCEPT ![port.id] = port],
           [h3 EXCEPT ![port.h3Index] = updatedPorts] >>

\* returns the new <<port map, cell index>>
cachePort(pcache, h3, port) ==
    LET existingPorts == getPortsByH3Index(h3, port.h3Index)
        updatedPorts == Append(SelectSeqBy(existingPorts, port.id), port)
    IN  << [pcache EXCEPT ![port.id] = port],
           [h3 EXCEPT ![port.h3Index] = updatedPorts] >>

\* the awaited steps of cachePort, one by one:
\*   cacheManager.set(port:{id}, port)
cachePortSet(pcache, port) == [pcache EXCEPT ![port.id] = port]

\*   existingPorts = getPortsByH3Index(port.h3Index)
cachePortRead(h3, port) == getPortsByH3Index(h3, port.h3Index)

\* cachePortWrite that reads the entry again as it writes (an atomic update)
cachePortWrite_Reread(h3, port, existingPorts) ==
    [h3 EXCEPT ![port.h3Index] =
        Append(SelectSeqBy(getPortsByH3Index(h3, port.h3Index), port.id), port)]

\*   cacheManager.set(h3:{index}:ports, existingPorts without the port, plus it)
cachePortWrite(h3, port, existingPorts) ==
    [h3 EXCEPT ![port.h3Index] = Append(SelectSeqBy(existingPorts, port.id), port)]

invalidatePortCache(pcache, portId) == [pcache EXCEPT ![portId] = NoPort]

invalidateH3IndexCache(h3, h3Index) ==
    IF h3Index \in DOMAIN h3 THEN [h3 EXCEPT ![h3Index] = <<>>] ELSE h3

\* invalidateNearestPortCache that clears the memo of every coordinate
invalidateNearestPortCache_All(np, coordinate) ==
    [k \in DOMAIN np |-> NoMatch]

invalidateNearestPortCache(np, coordinate) ==
    [k \in DOMAIN np |->
        IF \E i \in 1..Len(InvalidatedRadii) :
              k = getNearestPortCacheKey(coordinate, InvalidatedRadii[i])
        THEN NoMatch ELSE np[k]]

getNearestPortFromCache(np, coordinate, radiusKm) ==
    np[getNearestPortCacheKey(coordinate, radiusKm)]

cacheNearestPortResult(np, coordinate, res, radiusKm) ==
    [np EXCEPT ![getNearestPortCacheKey(coordinate, radiusKm)] = res]

\* cachePortsByH3Index that adds the list to the entry instead of replacing it
cachePortsByH3Index_Append(h3, h3Index, ports) == [h3 EXCEPT ![h3Index] = @ \o ports]

cachePortsByH3Index(h3, h3Index, ports) == [h3 EXCEPT ![h3Index] = ports]

\* cacheManager.reset(): <<port map, cell index, memo>> with no key left
clearAllCache(pcache, h3, np) ==
    << [p \in DOMAIN pcache |-> NoPort],
       [c \in DOMAIN h3 |-> <<>>],
       [k \in DOMAIN np |-> NoMatch] >>

\* the catch clause of the methods without `throw`
CacheFailureRaised_Rethrow(failed) == failed

\* TRUE when a failure of the cache store inside a method of PortCacheService
\* reaches the caller of the method: every method body sits in a try whose
\* catch logs and returns null, [] or nothing
CacheFailureRaised(failed) == failed /\ FALSE

(* ------------------------- port service (store) ------------------------ *)
\* PortRepository.findById: the row, whatever its is_active flag
findById(rows, id) == rows[id]

\* PortDomainService.getPortById as seen through PortServiceClient.getPortById:
\* TRUE when a record comes back, FALSE on 404
getPortById(rows, id) == findById(rows, id).exists

\* PortRepository.findNearbyPorts: the active rows within radiusKm
NearbyIds(rows, coordinate, radiusKm) ==
    {p \in PortIds : /\ rows[p].exists
                     /\ rows[p].isActive
                     /\ calculateDistance(coordinate, rows[p].coordinate) <= radiusKm * 1000}

\* the orders ORDER BY distance ASC may list the rows in (ties in any order)
StoreOrders(rows, coordinate) ==
    LET S == {p \in PortIds : rows[p].exists /\ rows[p].isActive}
        n == Cardinality(S)
    IN  {s \in [1..n -> S] :
            /\ \A i, j \in 1..n : i # j => s[i] # s[j]
            /\ \A i, j \in 1..n : i < j =>
                   calculateDistance(coordinate, rows[s[i]].coordinate)
                     <= calculateDistance(coordinate, rows[s[j]].coordinate)}

(* --------------------------- LocationDomainService --------------------- *)
\* the ports the ring loop has collected when it stops
RECURSIVE CollectCells(_, _)
CollectCells(h3, cells) ==
    IF cells = <<>> THEN <<>>
    ELSE getPortsByH3Index(h3, Head(cells)) \o CollectCells(h3, Tail(cells))

\* RingLoop that scans every ring up to maxRing before it stops
RECURSIVE RingLoop_Full(_, _, _, _)
RingLoop_Full(h3, h3Index, ring, maxRing) ==
    CollectCells(h3, getH3Neighbors(h3Index, maxRing))

RECURSIVE RingLoop(_, _, _, _)
RingLoop(h3, h3Index, ring, maxRing) ==
    IF ring > maxRing THEN <<>>
    ELSE LET ports == CollectCells(h3, getH3Neighbors(h3Index, ring))
         IN  IF ports # <<>> THEN ports ELSE RingLoop(h3, h3Index, ring + 1, maxRing)

\* the loop counter when the ring loop stops: the number of rings it scanned
RECURSIVE RingLoopEnd(_, _, _, _)
RingLoopEnd(h3, h3Index, ring, maxRing) ==
    IF ring > maxRing THEN ring
    ELSE IF CollectCells(h3, getH3Neighbors(h3Index, ring)) # <<>> THEN ring + 1
         ELSE RingLoopEnd(h3, h3Index, ring + 1, maxRing)

\* SearchMaxRing of a search that looks at the query cell only
SearchMaxRing_QueryCell(maxRadiusKm) == 0

\* maxRing of the ring search
SearchMaxRing(maxRadiusKm) ==
    LET calculatedRings == IF IsFinite(maxRadiusKm)
                           THEN calculateRequiredH3Rings(maxRadiusKm) ELSE 10
    IN  Min(calculatedRings, MaxRings)

InfScore == 2000000000            \* Infinity, above every score

Score(h3Distance, distance) == h3Distance * 1000 * 1000 + distance

\* distanceKm is held in metres, like every distance here
MatchOf(h3Index, coordinate, port) ==
    [portId |-> port.id, coordinate |-> port.coordinate,
     distanceKm |-> calculateDistance(coordinate, port.coordinate),
     h3Distance |-> calculateH3Distance(h3Index, port.h3Index),
     h3Index |-> port.h3Index]

MatchScore(m) == IF m.portId = NoId THEN InfScore
                 ELSE Score(m.h3Distance, m.distanceKm)

\* PickNearest that keeps the first eligible port, whatever its score
RECURSIVE PickNearest_First(_, _, _, _, _)
PickNearest_First(ports, h3Index, coordinate, maxRadiusKm, best) ==
    IF ports = <<>> THEN best
    ELSE LET m == MatchOf(h3Index, coordinate, Head(ports))
             isWithinH3RingLimit == m.h3Distance <= MaxRings
             isWithinKmLimit == IF IsFinite(maxRadiusKm)
                                THEN m.distanceKm <= maxRadiusKm * 1000 ELSE TRUE
             take == /\ isWithinH3RingLimit
                     /\ best.portId = NoId
                     /\ isWithinKmLimit
         IN  PickNearest_First(Tail(ports), h3Index, coordinate, maxRadiusKm,
                               IF take THEN m ELSE best)

RECURSIVE PickNearest(_, _, _, _, _)
PickNearest(ports, h3Index, coordinate, maxRadiusKm, best) ==
    IF ports = <<>> THEN best
    ELSE LET m == MatchOf(h3Index, coordinate, Head(ports))
             isWithinH3RingLimit == m.h3Distance <= MaxRings
             isWithinKmLimit == IF IsFinite(maxRadiusKm)
                                THEN m.distanceKm <= maxRadiusKm * 1000 ELSE TRUE
             take == /\ isWithinH3RingLimit
                     /\ MatchScore(m) < MatchScore(best)
                     /\ isWithinKmLimit
         IN  PickNearest(Tail(ports), h3Index, coordinate, maxRadiusKm,
                         IF take THEN m ELSE best)

findNearestPortUsingH3(h3, coordinate, maxRadiusKm) ==
    LET h3Index == coordinateToH3(coordinate)
        maxRing == SearchMaxRing(maxRadiusKm)
        ports == RingLoop(h3, h3Index, 0, maxRing)
    IN  PickNearest(ports, h3Index, coordinate, maxRadiusKm, NoMatch)

\* hydrateCacheAround: cachePort for every fetched row, in the order fetched
RECURSIVE Hydrate(_, _, _, _)
Hydrate(pcache, h3, rows, ids) ==
    IF ids = <<>> THEN <<pcache, h3>>
    ELSE LET id == Head(ids)
             portCoord == rows[id].coordinate
             c == cachePort(pcache, h3,
                            CachedPort(id, portCoord, coordinateToH3(portCoord)))
         IN  Hydrate(c[1], c[2], rows, Tail(ids))

RECURSIVE PickBest(_, _, _, _, _)
PickBest(ids, rows, h3Index, coordinate, best) ==
    IF ids = <<>> THEN best
    ELSE LET portCoord == rows[Head(ids)].coordinate
             m == MatchOf(h3Index, coordinate,
                          CachedPort(Head(ids), portCoord, coordinateToH3(portCoord)))
             take == m.h3Distance <= MaxRings /\ MatchScore(m) < MatchScore(best)
         IN  PickBest(Tail(ids), rows, h3Index, coordinate, IF take THEN m ELSE best)

\* findNearestViaPortService: <<match, port map, cell index>>
findNearestViaPortService(pcache, h3, rows, nearby, coordinate) ==
    LET c == Hydrate(pcache, h3, rows, nearby)
    IN  << PickBest(nearby, rows, coordinateToH3(coordinate), coordinate, NoMatch),
           c[1], c[2] >>

\* InRadius without the distance filter
RECURSIVE InRadius_All(_, _, _, _)
InRadius_All(allPorts, h3Index, coordinate, radiusKm) ==
    IF allPorts = <<>> THEN <<>>
    ELSE <<MatchOf(h3Index, coordinate, Head(allPorts))>>
         \o InRadius_All(Tail(allPorts), h3Index, coordinate, radiusKm)

\* findPortsInRadius: the collected ports within radiusKm, as matches
RECURSIVE InRadius(_, _, _, _)
InRadius(allPorts, h3Index, coordinate, radiusKm) ==
    IF allPorts = <<>> THEN <<>>
    ELSE LET m == MatchOf(h3Index, coordinate, Head(allPorts))
         IN  (IF m.distanceKm <= radiusKm * 1000 THEN <<m>> ELSE <<>>)
             \o InRadius(Tail(allPorts), h3Index, coordinate, radiusKm)

\* Array.prototype.sort((a, b) => a.distanceKm - b.distanceKm): stable
RECURSIVE InsertByDistance(_, _)
InsertByDistance(s, m) ==
    IF s = <<>> THEN <<m>>
    ELSE IF Head(s).distanceKm <= m.distanceKm
         THEN <<Head(s)>> \o InsertByDistance(Tail(s), m)
         ELSE <<m>> \o s

RECURSIVE SortByDistance(_)
SortByDistance(s) ==
    IF s = <<>> THEN <<>>
    ELSE InsertByDistance(SortByDistance(SubSeq(s, 1, Len(s) - 1)), s[Len(s)])

findPortsInRadius(h3, coordinate, radiusKm) ==
    LET h3Index == coordinateToH3(coordinate)
        ringCount == calculateRequiredH3Rings(radiusKm)
        h3Cells == getH3Neighbors(h3Index, ringCount)
        allPorts == CollectCells(h3, h3Cells)
    IN  SortByDistance(InRadius(allPorts, h3Index, coordinate, radiusKm))

fallbackRadii(maxRadiusKm) ==
    IF IsFinite(maxRadiusKm)
    THEN << Min(maxRadiusKm, 50), Min(maxRadiusKm, 200), Min(maxRadiusKm, 500) >>
    ELSE << 50, 200, 500, 1000, 2000, 5000, 10000 >>

Prefix(order, S) == SelectSeq(order, LAMBDA id : id \in S)

\* the progressive-radius loop; order is the row order the store answers in
RECURSIVE FallbackLoop(_, _, _, _, _, _)
FallbackLoop(pcache, h3, rows, order, coordinate, radii) ==
    IF radii = <<>> THEN <<NoMatch, pcache, h3>>
    ELSE LET nearby == Prefix(order, NearbyIds(rows, coordinate, Head(radii)))
             r == findNearestViaPortService(pcache, h3, rows, nearby, coordinate)
         IN  IF r[1].portId # NoId THEN r
             ELSE FallbackLoop(r[2], r[3], rows, order, coordinate, Tail(radii))

(* ------------------------------- state --------------------------------- *)
VARIABLES
    ports,          \* port service: the ports table, id -> row
    issued,         \* port service: ids already given to a port (uuids)
    written,        \* port service: outbox rows written so far
    queues,         \* outbox rows on their way to the synchronizer, per queue
    portCache,      \* Redis port:{id}
    h3Cache,        \* Redis h3:{index}:ports
    nearestCache,   \* Redis nearest:{lat}:{lng}:{radius}
    channel,        \* location service EventPublisher: channel established
    isH3Only,       \* LOCATION_H3_ONLY
    rejected,       \* synchronizer: messages answered with nack so far
    pc,             \* where the findNearestPort call in flight stands
    call,           \* the call in flight, or the last one once pc = "idle"
    outbox,         \* port service: the outbox_events table, oldest row first
    broker,         \* RabbitMQ takes the messages the port service publishes
    writers,        \* location service: the cachePort calls in flight
    saving,         \* port service: events the write in flight has yet to save
    warm,           \* location service: the warmup in flight, step by step
    jobs            \* port service: the outbox job runs in flight, and the
                    \* broker's count of the messages it took for each row

vars == <<ports, issued, written, queues, portCache, h3Cache, nearestCache,
          channel, isH3Only, rejected, pc, call, outbox, broker, writers,
          saving, warm, jobs>>

flightVars == <<saving, warm, jobs>>
auxVars == <<outbox, broker, writers, flightVars>>
storeVars == <<ports, issued, written>>
cacheVars == <<portCache, h3Cache, nearestCache>>

EventTypes == {"PortCreated", "PortUpdated", "PortH3IndexUpdated"}

Event(type, id, coordinate, h3Index) ==
    [type |-> type, id |-> id, coordinate |-> coordinate, h3Index |-> h3Index]

NoCall ==
    [coordinate |-> 0, maxRadiusKm |-> 0, outcome |-> "none", source |-> "none",
     nearestPort |-> NoMatch, unverified |-> NoMatch,
     publishFailed |-> FALSE, memoCheck |-> "none", guard |-> "none",
     stale |-> {}, resolved |-> {}, searches |-> 0, getByIdCalls |-> 0,
     fallback |-> "none", portsInRadius |-> <<>>,
     radii |-> <<>>, rings |-> <<>>, cacheDown |-> FALSE,
     fetch |-> "none", fetched |-> <<>>, before |-> {}, memoBefore |-> FALSE]

\* the consumers whose cachePort calls may be in flight at the same time
WriterIds == {1, 2}

NoWriter == [step |-> "idle", port |-> NoPort, existingPorts |-> <<>>]

\* no warmup has run; kept and dropped: the ports a handler cached during the
\* warmup that are, and are not, in their cell entry as the warmup completes
NoWarm == [step |-> "idle", fetched |-> <<>>, todo |-> <<>>, cells |-> <<>>,
           kept |-> {}, dropped |-> {}]

\* the runs of the outbox jobs that may be in flight at the same time
RunIds == {1, 2}

NoRun == [step |-> "idle", todo |-> <<>>]

NoJobs == [run |-> [r \in RunIds |-> NoRun],
           handed |-> [i \in 1..(MaxOutbox + 1) |-> 0],
           saveFailures |-> 0]

NewCall(coordinate, maxRadiusKm) ==
    [NoCall EXCEPT !.coordinate = coordinate, !.maxRadiusKm = maxRadiusKm,
                   !.outcome = "running"]

Init ==
    /\ ports = [p \in PortIds |-> NoRow]
    /\ issued = {}
    /\ written = 0
    /\ queues = [t \in EventTypes |-> <<>>]
    /\ portCache = [p \in PortIds |-> NoPort]
    /\ h3Cache = [c \in Cells |-> <<>>]
    /\ nearestCache = [k \in MemoKeys |-> NoMatch]
    /\ channel \in BOOLEAN
    /\ isH3Only \in BOOLEAN
    /\ rejected = 0
    /\ pc = "idle"
    /\ call = NoCall
    /\ outbox = <<>>
    /\ broker = TRUE
    /\ writers = [w \in WriterIds |-> NoWriter]
    /\ saving = <<>>
    /\ warm = NoWarm
    /\ jobs = NoJobs

\* OutboxService.saveEvent followed by the relay of the row: the rows are
\* published oldest first, so each queue receives its events in the order
\* they were written
saveEvents(q, events) ==
    [t \in EventTypes |-> q[t] \o SelectSeq(events, LAMBDA e : e.type = t)]

(* ------------------------- PortDomainService --------------------------- *)
createPort(id, coordinate) ==
    /\ pc = "idle"
    /\ id \notin issued
    /\ \A other \in PortIds \ issued : id <= other
    /\ written + 1 <= MaxEvents
    /\ written' = written + 1
    /\ ports' = [ports EXCEPT ![id] =
                    [exists |-> TRUE, coordinate |-> coordinate,
                     h3Index |-> coordinateToH3(coordinate), isActive |-> TRUE]]
    /\ issued' = issued \cup {id}
    /\ queues' = saveEvents(queues, <<Event("PortCreated", id, coordinate, 0)>>)
    /\ UNCHANGED <<cacheVars, channel, isH3Only, auxVars, rejected, pc, call>>

\* name: whether the request carries a name that differs from the stored one;
\* coord: the coordinate of the request, -1 when it carries none
NoCoord == 0 - 1

updatePort(id, name, coord) ==
    LET port == findById(ports, id)
        moved == coord # NoCoord /\ coord # port.coordinate
        saved == IF moved
                 THEN [port EXCEPT !.coordinate = coord, !.h3Index = coordinateToH3(coord)]
                 ELSE port
        updateEvent == <<Event("PortUpdated", id, saved.coordinate, 0)>>
        h3Event == IF coord # NoCoord
                   THEN <<Event("PortH3IndexUpdated", id, 0, saved.h3Index)>>
                   ELSE <<>>
    IN  /\ pc = "idle"
        /\ port.exists
        /\ name \/ moved
        /\ written + 1 + Len(h3Event) <= MaxEvents
        /\ written' = written + 1 + Len(h3Event)
        /\ ports' = [ports EXCEPT ![id] = saved]
        /\ queues' = saveEvents(queues, updateEvent \o h3Event)
        /\ UNCHANGED <<issued, cacheVars, channel, isH3Only, auxVars, rejected, pc, call>>

deletePort(id) ==
    /\ pc = "idle"
    /\ findById(ports, id).exists
    /\ ports[id].isActive
    /\ ports' = [ports EXCEPT ![id].isActive = FALSE]
    /\ UNCHANGED <<issued, written, queues, cacheVars, channel, isH3Only, auxVars, rejected, pc, call>>

\* PortRepository.delete, or the row removed by hand in the database
RepositoryDelete(id) ==
    /\ pc = "idle"
    /\ ports[id].exists
    /\ ports' = [ports EXCEPT ![id] = NoRow]
    /\ UNCHANGED <<issued, written, queues, cacheVars, channel, isH3Only, auxVars, rejected, pc, call>>

(* --------------------------- PortEventHandler -------------------------- *)
\* The consumer of a queue runs the handler on the message at its head and
\* answers ack when the handler returns, nack (without requeue) when it throws;
\* either way the message has left the queue.

\* new Coordinate(latitude, longitude): TRUE when the constructor throws
CoordinateThrows(coordinate) == Abs(coordinate) > MaxLatitude

\* a read of a property of a value that may be null, run when executed holds:
\* TRUE when it throws
NullRead(executed, port) == executed /\ port.id = NoId

handlePortCreated ==
    /\ pc = "idle"
    /\ queues["PortCreated"] # <<>>
    /\ LET event == Head(queues["PortCreated"])
           h3Index == coordinateToH3(event.coordinate)
           c == cachePort(portCache, h3Cache,
                          CachedPort(event.id, event.coordinate, h3Index))
       IN  IF CoordinateThrows(event.coordinate)
           THEN /\ rejected' = rejected + 1
                /\ UNCHANGED <<portCache, h3Cache>>
           ELSE /\ rejected' = rejected
                /\ portCache' = c[1]
                /\ h3Cache' = c[2]
    /\ queues' = [queues EXCEPT !["PortCreated"] = Tail(@)]
    /\ UNCHANGED <<storeVars, nearestCache, channel, isH3Only, auxVars, pc, call>>

\* <<port map, cell index>> after handlePortUpdated has run for the event
UpdatedEffect(pcache, h3, event) ==
    LET h3Index == coordinateToH3(event.coordinate)
    IN  cachePort(invalidatePortCache(pcache, event.id), h3,
                  UpdatedPort(event.id, event.coordinate, h3Index))

handlePortUpdated ==
    /\ pc = "idle"
    /\ queues["PortUpdated"] # <<>>
    /\ LET event == Head(queues["PortUpdated"])
           c == UpdatedEffect(portCache, h3Cache, event)
       IN  IF CoordinateThrows(event.coordinate)
           THEN /\ rejected' = rejected + 1
                /\ UNCHANGED cacheVars
           ELSE /\ rejected' = rejected
                /\ portCache' = c[1]
                /\ h3Cache' = c[2]
                /\ nearestCache' = invalidateNearestPortCache(nearestCache,
                                                              event.coordinate)
    /\ queues' = [queues EXCEPT !["PortUpdated"] = Tail(@)]
    /\ UNCHANGED <<storeVars, channel, isH3Only, auxVars, pc, call>>

\* H3UpdatedEffect without the removal of the port's previous cell entry
H3UpdatedEffect_KeepOld(pcache, h3, event) ==
    LET cachedPort == getPort(pcache, event.id)
    IN  IF cachedPort.id # NoId
        THEN cachePort(pcache, h3, [cachedPort EXCEPT !.h3Index = event.h3Index])
        ELSE <<pcache, h3>>

\* <<port map, cell index>> after the handler has run for the event
H3UpdatedEffect(pcache, h3, event) ==
    LET cachedPort == getPort(pcache, event.id)
        cleared == IF cachedPort.id # NoId
                   THEN invalidateH3IndexCache(h3, cachedPort.h3Index) ELSE h3
    IN  IF cachedPort.id # NoId
        THEN cachePort(pcache, cleared, [cachedPort EXCEPT !.h3Index = event.h3Index])
        ELSE <<pcache, cleared>>

\* H3UpdatedThrows with the snapshot's cell read before the snapshot is tested
H3UpdatedThrows_NoNullCheck(pcache, event) ==
    NullRead(TRUE, getPort(pcache, event.id))

\* TRUE when the handler throws: it reads cachedPort.h3Index behind
\* `cachedPort &&` and spreads cachedPort inside `if (cachedPort)`
H3UpdatedThrows(pcache, event) ==
    LET cachedPort == getPort(pcache, event.id)
        present == cachedPort.id # NoId
    IN  NullRead(present, cachedPort) \/ NullRead(present, cachedPort)

handlePortH3Updated ==
    /\ pc = "idle"
    /\ queues["PortH3IndexUpdated"] # <<>>
    /\ LET event == Head(queues["PortH3IndexUpdated"])
           c == H3UpdatedEffect(portCache, h3Cache, event)
       IN  IF H3UpdatedThrows(portCache, event)
           THEN /\ rejected' = rejected + 1
                /\ UNCHANGED <<portCache, h3Cache>>
           ELSE /\ rejected' = rejected
                /\ portCache' = c[1]
                /\ h3Cache' = c[2]
    /\ queues' = [queues EXCEPT !["PortH3IndexUpdated"] = Tail(@)]
    /\ UNCHANGED <<storeVars, nearestCache, channel, isH3Only, auxVars, pc, call>>

(* ----------------------- EventPublisher (location) --------------------- *)
\* connect(): the channel after a connect attempt; a failure is swallowed
connect(chan, brokerUp) == chan \/ brokerUp

\* publish(): TRUE when it returns, FALSE when it throws.  Without a channel
\* the call on it raises; with one, the broker may refuse the message.
publish(chan, brokerUp, accepted) ==
    LET ch == IF ~chan THEN connect(chan, brokerUp) ELSE chan
    IN  ch /\ accepted

(* ----------------- LocationDomainService.findNearestPort --------------- *)
\* The call is a sequence of awaited steps; pc names the next one.
\*   idle -> [memo] -> search -> [fallback] -> [guard] -> done -> idle
\* At "done" the call has its outcome; Return hands it to the caller.
\* The store and the synchronizer stand still while a call is in flight.

\* FindNearestPort that consults the memo whatever LOCATION_H3_ONLY says
FindNearestPort_AlwaysMemo(coordinate, maxRadiusKm, brokerUp, accepted) ==
    LET ok == publish(channel, brokerUp, accepted)
        c0 == NewCall(coordinate, maxRadiusKm)
    IN  /\ pc = "idle"
        /\ channel' = IF ~channel THEN connect(channel, brokerUp) ELSE channel
        /\ IF ~ok
           THEN /\ call' = [c0 EXCEPT !.publishFailed = TRUE, !.outcome = "error"]
                /\ pc' = "done"
           ELSE /\ call' = c0
                /\ pc' = "memo"
        /\ UNCHANGED <<storeVars, queues, cacheVars, isH3Only, auxVars, rejected>>

FindNearestPort(coordinate, maxRadiusKm, brokerUp, accepted) ==
    LET ok == publish(channel, brokerUp, accepted)
        c0 == NewCall(coordinate, maxRadiusKm)
    IN  /\ pc = "idle"
        /\ channel' = IF ~channel THEN connect(channel, brokerUp) ELSE channel
        /\ IF ~ok
           THEN /\ call' = [c0 EXCEPT !.publishFailed = TRUE, !.outcome = "error"]
                /\ pc' = "done"
           ELSE /\ call' = c0
                /\ pc' = IF isH3Only THEN "search" ELSE "memo"
        /\ UNCHANGED <<storeVars, queues, cacheVars, isH3Only, auxVars, rejected>>

\* the caches after a stale port has been found: <<port map, cell index, memo>>
InvalidateStale(pcache, h3, np, m, coordinate) ==
    << invalidatePortCache(pcache, m.portId),
       invalidateH3IndexCache(h3, m.h3Index),
       invalidateNearestPortCache(np, coordinate) >>

\* the memo after the validation of a memoized match could not reach the store
MemoAfterUnavailable(np, coordinate) == invalidateNearestPortCache(np, coordinate)

\* MemoCheck that returns a memoized match without asking the store
MemoCheck_Trust(storeUp) ==
    LET cachedResult == getNearestPortFromCache(nearestCache, call.coordinate,
                                                call.maxRadiusKm)
    IN  /\ pc = "memo"
        /\ storeUp
        /\ IF cachedResult.portId = NoId
           THEN /\ call' = [call EXCEPT !.memoCheck = "miss"]
                /\ pc' = "search"
           ELSE /\ call' = [call EXCEPT !.memoCheck = "valid", !.outcome = "found",
                                        !.source = "memo",
                                        !.nearestPort = cachedResult]
                /\ pc' = "done"
        /\ UNCHANGED <<storeVars, queues, cacheVars, channel, isH3Only, auxVars, rejected>>

\* storeUp: whether getPortById reaches the port service
MemoCheck(storeUp) ==
    LET cachedResult == getNearestPortFromCache(nearestCache, call.coordinate,
                                                call.maxRadiusKm)
    IN  /\ pc = "memo"
        /\ IF cachedResult.portId = NoId
           THEN /\ storeUp
                /\ call' = [call EXCEPT !.memoCheck = "miss"]
                /\ pc' = "search"
                /\ UNCHANGED cacheVars
           ELSE IF ~storeUp
           THEN /\ call' = [call EXCEPT !.memoCheck = "unavailable",
                                        !.unverified = cachedResult,
                                        !.getByIdCalls = @ + 1]
                /\ pc' = "search"
                /\ nearestCache' = MemoAfterUnavailable(nearestCache, call.coordinate)
                /\ UNCHANGED <<portCache, h3Cache>>
           ELSE IF getPortById(ports, cachedResult.portId)
           THEN /\ call' = [call EXCEPT !.memoCheck = "valid", !.outcome = "found",
                                        !.source = "memo",
                                        !.nearestPort = cachedResult,
                                        !.resolved = @ \cup {cachedResult.portId},
                                        !.getByIdCalls = @ + 1]
                /\ pc' = "done"
                /\ UNCHANGED cacheVars
           ELSE LET c == InvalidateStale(portCache, h3Cache, nearestCache,
                                         cachedResult, call.coordinate)
                IN  /\ call' = [call EXCEPT !.memoCheck = "stale",
                                            !.stale = @ \cup {cachedResult.portId},
                                            !.getByIdCalls = @ + 1]
                    /\ pc' = "search"
                    /\ portCache' = c[1]
                    /\ h3Cache' = c[2]
                    /\ nearestCache' = c[3]
        /\ UNCHANGED <<storeVars, queues, channel, isH3Only, auxVars, rejected>>

Search ==
    LET nearestPort == findNearestPortUsingH3(h3Cache, call.coordinate, call.maxRadiusKm)
    IN  /\ pc = "search"
        /\ IF nearestPort.portId # NoId
           THEN /\ call' = [call EXCEPT !.nearestPort = nearestPort, !.source = "ring",
                                        !.searches = @ + 1]
                /\ pc' = "guard"
           ELSE IF isH3Only
           THEN /\ call' = [call EXCEPT !.outcome = "notfound", !.searches = @ + 1]
                /\ pc' = "done"
           ELSE /\ call' = [call EXCEPT !.searches = @ + 1]
                /\ pc' = "fallback"
        /\ UNCHANGED <<storeVars, queues, cacheVars, channel, isH3Only, auxVars, rejected>>

\* Fallback with a failed fetch taken for an empty answer
Fallback_Swallow(storeUp, order) ==
    /\ pc = "fallback"
    /\ LET r == IF storeUp
                THEN FallbackLoop(portCache, h3Cache, ports, order, call.coordinate,
                                  fallbackRadii(call.maxRadiusKm))
                ELSE <<NoMatch, portCache, h3Cache>>
           how == IF storeUp THEN "fetched" ELSE "unavailable"
       IN  /\ portCache' = r[2]
           /\ h3Cache' = r[3]
           /\ UNCHANGED nearestCache
           /\ IF r[1].portId # NoId
              THEN /\ call' = [call EXCEPT !.nearestPort = r[1],
                                           !.source = "fallback", !.fallback = how]
                   /\ pc' = "guard"
              ELSE /\ call' = [call EXCEPT !.outcome = "notfound", !.fallback = how]
                   /\ pc' = "done"
    /\ UNCHANGED <<storeVars, queues, channel, isH3Only, auxVars, rejected>>

\* storeUp: whether findNearbyPorts reaches the port service;
\* order: the order in which the store lists its rows
Fallback(storeUp, order) ==
    /\ pc = "fallback"
    /\ IF ~storeUp
       THEN /\ call' = [call EXCEPT !.outcome = "error", !.fallback = "unavailable"]
            /\ pc' = "done"
            /\ UNCHANGED cacheVars
       ELSE LET r == FallbackLoop(portCache, h3Cache, ports, order, call.coordinate,
                                  fallbackRadii(call.maxRadiusKm))
            IN  /\ portCache' = r[2]
                /\ h3Cache' = r[3]
                /\ UNCHANGED nearestCache
                /\ IF r[1].portId # NoId
                   THEN /\ call' = [call EXCEPT !.nearestPort = r[1],
                                                !.source = "fallback",
                                                !.fallback = "fetched"]
                        /\ pc' = "guard"
                   ELSE /\ call' = [call EXCEPT !.outcome = "notfound",
                                                !.fallback = "fetched"]
                        /\ pc' = "done"
    /\ UNCHANGED <<storeVars, queues, channel, isH3Only, auxVars, rejected>>

\* GuardStale with the search restarted from the top instead of re-run once
GuardStale_Restart(nearestPort) ==
    LET c == InvalidateStale(portCache, h3Cache, nearestCache, nearestPort,
                             call.coordinate)
    IN  /\ pc' = "search"
        /\ call' = [call EXCEPT !.guard = "stale",
                                !.stale = @ \cup {nearestPort.portId},
                                !.nearestPort = NoMatch,
                                !.getByIdCalls = @ + 1]
        /\ portCache' = c[1]
        /\ h3Cache' = c[2]
        /\ nearestCache' = c[3]

\* the stale branch of the final guard: invalidate, then one re-run of the
\* ring search whose match is memoized and returned as it is
GuardStale(nearestPort) ==
    LET c == InvalidateStale(portCache, h3Cache, nearestCache, nearestPort,
                             call.coordinate)
        again == findNearestPortUsingH3(c[2], call.coordinate, call.maxRadiusKm)
    IN  /\ pc' = "done"
        /\ call' = [call EXCEPT
                      !.guard = "stale",
                      !.stale = @ \cup {nearestPort.portId},
                      !.nearestPort = again,
                      !.source = IF again.portId = NoId THEN @ ELSE "research",
                      !.outcome = IF again.portId = NoId THEN "notfound" ELSE "found",
                      !.searches = @ + 1,
                      !.getByIdCalls = @ + 1]
        /\ portCache' = c[1]
        /\ h3Cache' = c[2]
        /\ nearestCache' =
              IF again.portId = NoId THEN c[3]
              ELSE cacheNearestPortResult(c[3], call.coordinate, again,
                                          call.maxRadiusKm)

\* storeUp: whether getPortById reaches the port service
Guard(storeUp) ==
    LET nearestPort == call.nearestPort
    IN  /\ pc = "guard"
        /\ IF ~storeUp
           THEN /\ call' = [call EXCEPT
                              !.guard = "unavailable",
                              !.unverified = IF @.portId = NoId THEN nearestPort ELSE @,
                              !.nearestPort = NoMatch,
                              !.outcome = "notfound",
                              !.getByIdCalls = @ + 1]
                /\ pc' = "done"
                /\ UNCHANGED cacheVars
           ELSE IF getPortById(ports, nearestPort.portId)
           THEN /\ call' = [call EXCEPT !.guard = "valid", !.outcome = "found",
                                        !.resolved = @ \cup {nearestPort.portId},
                                        !.getByIdCalls = @ + 1]
                /\ pc' = "done"
                /\ nearestCache' = cacheNearestPortResult(nearestCache, call.coordinate,
                                                          nearestPort, call.maxRadiusKm)
                /\ UNCHANGED <<portCache, h3Cache>>
           ELSE GuardStale(nearestPort)
        /\ UNCHANGED <<storeVars, queues, channel, isH3Only, auxVars, rejected>>

(* ----------------- LocationDomainService.findPortsInRadius ------------- *)
FindPortsInRadius(coordinate, radiusKm) ==
    /\ pc = "idle"
    /\ call' = [NewCall(coordinate, radiusKm) EXCEPT
                  !.outcome = "list",
                  !.portsInRadius = findPortsInRadius(h3Cache, coordinate, radiusKm)]
    /\ pc' = "done"
    /\ UNCHANGED <<storeVars, queues, cacheVars, channel, isH3Only, auxVars, rejected>>

(* ------------------------------ OutboxService -------------------------- *)
MaxRetries == 3                   \* findFailedEvents(3)

\* OutboxEvent.fromDomainEvent: a PENDING row that was never tried
OutboxEvent(event) == [event |-> event, status |-> "PENDING", retryCount |-> 0]

markAsPublished(row) == [row EXCEPT !.status = "PUBLISHED"]

markAsFailed(row) == [row EXCEPT !.status = "FAILED", !.retryCount = @ + 1]

\* the rows the two jobs select, as positions in the table
findPendingEvents(rows) == {i \in 1..Len(rows) : rows[i].status = "PENDING"}

\* findFailedEvents without the status in its where clause
findFailedEvents_AnyStatus(rows, maxRetries) ==
    {i \in 1..Len(rows) : rows[i].status # "PENDING" /\ rows[i].retryCount < maxRetries}

findFailedEvents(rows, maxRetries) ==
    {i \in 1..Len(rows) : rows[i].status = "FAILED" /\ rows[i].retryCount < maxRetries}

\* the loop of a job over the rows it selected: publish, then mark the row
PublishRows(rows, selected, up) ==
    [i \in 1..Len(rows) |->
        IF i \in selected
        THEN (IF up THEN markAsPublished(rows[i]) ELSE markAsFailed(rows[i]))
        ELSE rows[i]]

\* the messages the broker routes to the queues, oldest row first
RECURSIVE Routed(_, _, _)
Routed(q, rows, selected) ==
    IF rows = <<>> THEN q
    ELSE LET n == Len(rows)
             before == Routed(q, SubSeq(rows, 1, n - 1), selected)
         IN  IF n \in selected THEN saveEvents(before, <<rows[n].event>>) ELSE before

saveEvent(event) ==
    /\ Len(outbox) < MaxOutbox
    /\ outbox' = Append(outbox, OutboxEvent(event))
    /\ UNCHANGED <<storeVars, queues, cacheVars, channel, isH3Only, broker, writers, flightVars,
                   rejected, pc, call>>

\* the job of every 10 seconds
processOutboxEvents ==
    LET pendingEvents == findPendingEvents(outbox)
    IN  /\ pendingEvents # {}
        /\ outbox' = PublishRows(outbox, pendingEvents, broker)
        /\ queues' = IF broker THEN Routed(queues, outbox, pendingEvents) ELSE queues
        /\ UNCHANGED <<storeVars, cacheVars, channel, isH3Only, broker, writers, flightVars,
                       rejected, pc, call>>

\* the job of every 5 minutes
retryFailedEvents ==
    LET failedEvents == findFailedEvents(outbox, MaxRetries)
    IN  /\ failedEvents # {}
        /\ outbox' = PublishRows(outbox, failedEvents, broker)
        /\ queues' = IF broker THEN Routed(queues, outbox, failedEvents) ELSE queues
        /\ UNCHANGED <<storeVars, cacheVars, channel, isH3Only, broker, writers, flightVars,
                       rejected, pc, call>>

\* RabbitMQ goes away and comes back
BrokerDown ==
    /\ broker
    /\ broker' = FALSE
    /\ UNCHANGED <<storeVars, queues, cacheVars, channel, isH3Only, outbox, writers, flightVars,
                   rejected, pc, call>>

BrokerUp ==
    /\ ~broker
    /\ broker' = TRUE
    /\ UNCHANGED <<storeVars, queues, cacheVars, channel, isH3Only, outbox, writers, flightVars,
                   rejected, pc, call>>

(* ------------------- the outbox jobs, one await at a time -------------- *)
\* A run of a job selects its rows, then for each row awaits the publish and
\* the save of the row.  The cron schedule starts a run whether or not the
\* previous one has returned.  A run works on its own copies of the rows it
\* selected; save writes the copy over the row of the table.

JobKinds == {"process", "retry"}

\* the rows a run of the job selects: <<position, copy of the row>>, oldest first
RECURSIVE Selected(_, _, _)
Selected(rows, selected, i) ==
    IF i > Len(rows) THEN <<>>
    ELSE (IF i \in selected THEN <<[idx |-> i, row |-> rows[i]]>> ELSE <<>>)
         \o Selected(rows, selected, i + 1)

\* the rows runs in flight hold a copy of
Held ==
    UNION {{jobs.run[r].todo[k].idx : k \in 1..Len(jobs.run[r].todo)} : r \in RunIds}

\* the run goes on to its next row, or returns after the last one
NextRow(run) ==
    IF Len(run.todo) > 1 THEN [step |-> "publish", todo |-> Tail(run.todo)]
    ELSE NoRun

\* findPendingEvents(50) or findFailedEvents(3), and the return on no row
JobStart(r, kind) ==
    LET selected == IF kind = "process" THEN findPendingEvents(outbox)
                    ELSE findFailedEvents(outbox, MaxRetries)
    IN  /\ jobs.run[r].step = "idle"
        /\ selected # {}
        /\ jobs' = [jobs EXCEPT !.run[r] = [step |-> "publish",
                                            todo |-> Selected(outbox, selected, 1)]]
        /\ UNCHANGED <<storeVars, queues, cacheVars, channel, isH3Only, outbox, broker,
                       writers, saving, warm, rejected, pc, call>>

\* await eventPublisher.publish(outboxEvent.eventData), then markAsPublished,
\* or markAsFailed in the catch block
JobPublish(r) ==
    LET run == jobs.run[r]
        e == Head(run.todo)
        marked == IF broker THEN markAsPublished(e.row) ELSE markAsFailed(e.row)
    IN  /\ run.step = "publish"
        /\ queues' = IF broker THEN saveEvents(queues, <<e.row.event>>) ELSE queues
        /\ jobs' = [jobs EXCEPT
                      !.run[r] = [step |-> IF broker THEN "save" ELSE "saveFailed",
                                  todo |-> <<[e EXCEPT !.row = marked]>> \o Tail(run.todo)],
                      !.handed[e.idx] = IF broker THEN @ + 1 ELSE @]
        /\ UNCHANGED <<storeVars, cacheVars, channel, isH3Only, outbox, broker,
                       writers, saving, warm, rejected, pc, call>>

\* await outboxRepository.save(outboxEvent) after markAsPublished; ok: whether
\* the save succeeds.  A failure lands in the catch block: markAsFailed
JobSave(r, ok) ==
    LET run == jobs.run[r]
        e == Head(run.todo)
    IN  /\ run.step = "save"
        /\ ok \/ jobs.saveFailures < MaxSaveFailures
        /\ IF ok
           THEN /\ outbox' = [outbox EXCEPT ![e.idx] = e.row]
                /\ jobs' = [jobs EXCEPT !.run[r] = NextRow(run)]
           ELSE /\ outbox' = outbox
                /\ jobs' = [jobs EXCEPT
                              !.run[r] = [step |-> "saveFailed",
                                          todo |-> <<[e EXCEPT !.row = markAsFailed(@)]>>
                                                   \o Tail(run.todo)],
                              !.saveFailures = @ + 1]
        /\ UNCHANGED <<storeVars, queues, cacheVars, channel, isH3Only, broker,
                       writers, saving, warm, rejected, pc, call>>

\* await outboxRepository.save(outboxEvent) in the catch block; a failure
\* leaves the loop for the outer catch and the run returns
JobSaveFailed(r, ok) ==
    LET run == jobs.run[r]
        e == Head(run.todo)
    IN  /\ run.step = "saveFailed"
        /\ ok \/ jobs.saveFailures < MaxSaveFailures
        /\ IF ok
           THEN /\ outbox' = [outbox EXCEPT ![e.idx] = e.row]
                /\ jobs' = [jobs EXCEPT !.run[r] = NextRow(run)]
           ELSE /\ outbox' = outbox
                /\ jobs' = [jobs EXCEPT !.run[r] = NoRun, !.saveFailures = @ + 1]
        /\ UNCHANGED <<storeVars, queues, cacheVars, channel, isH3Only, broker,
                       writers, saving, warm, rejected, pc, call>>

(* --------------- PortDomainService, one save at a time ----------------- *)
\* createPort and updatePort save the port row, then each event row, with
\* separate awaited repository calls and no transaction around them.  saving
\* holds the events the request in flight has still to save.

\* createPort up to portRepository.save(port)
createPortSave(id, coordinate) ==
    /\ saving = <<>>
    /\ id \notin issued
    /\ \A other \in PortIds \ issued : id <= other
    /\ ports' = [ports EXCEPT ![id] =
                    [exists |-> TRUE, coordinate |-> coordinate,
                     h3Index |-> coordinateToH3(coordinate), isActive |-> TRUE]]
    /\ issued' = issued \cup {id}
    /\ saving' = <<Event("PortCreated", id, coordinate, 0)>>
    /\ UNCHANGED <<written, queues, cacheVars, channel, isH3Only, outbox, broker,
                   writers, warm, jobs, rejected, pc, call>>

\* updatePort up to portRepository.save(port)
updatePortSave(id, name, coord) ==
    LET port == findById(ports, id)
        moved == coord # NoCoord /\ coord # port.coordinate
        saved == IF moved
                 THEN [port EXCEPT !.coordinate = coord, !.h3Index = coordinateToH3(coord)]
                 ELSE port
        updateEvent == <<Event("PortUpdated", id, saved.coordinate, 0)>>
        h3Event == IF coord # NoCoord
                   THEN <<Event("PortH3IndexUpdated", id, 0, saved.h3Index)>>
                   ELSE <<>>
    IN  /\ saving = <<>>
        /\ port.exists
        /\ name \/ moved
        /\ ports' = [ports EXCEPT ![id] = saved]
        /\ saving' = updateEvent \o h3Event
        /\ UNCHANGED <<issued, written, queues, cacheVars, channel, isH3Only, outbox,
                       broker, writers, warm, jobs, rejected, pc, call>>

\* the next outboxService.saveEvent of the request
saveNextEvent ==
    /\ saving # <<>>
    /\ Len(outbox) < MaxOutbox
    /\ outbox' = Append(outbox, OutboxEvent(Head(saving)))
    /\ saving' = Tail(saving)
    /\ UNCHANGED <<storeVars, queues, cacheVars, channel, isH3Only, broker, writers, warm, jobs,
                   rejected, pc, call>>

\* the request ends before its events are saved: saveEvent rejects (the
\* database refuses the insert) or the process stops; the port row stays
WriteAborted ==
    /\ saving # <<>>
    /\ saving' = <<>>
    /\ UNCHANGED <<storeVars, queues, cacheVars, channel, isH3Only, outbox, broker,
                   writers, warm, jobs, rejected, pc, call>>

(* ------------------- handlers running at the same time ----------------- *)
\* The consumer callback is async and the channel has no prefetch limit: the
\* next message is delivered while the handler of the previous one is still
\* waiting on the cache.  Writer w is one such handler run; its cachePort call
\* proceeds one awaited cache operation at a time.
ConsumePortCreated(w) ==
    /\ writers[w].step = "idle"
    /\ queues["PortCreated"] # <<>>
    /\ LET event == Head(queues["PortCreated"])
           h3Index == coordinateToH3(event.coordinate)
       IN  IF CoordinateThrows(event.coordinate)
           THEN /\ rejected' = rejected + 1
                /\ UNCHANGED writers
           ELSE /\ rejected' = rejected
                /\ writers' = [writers EXCEPT ![w] =
                                 [step |-> "set",
                                  port |-> CachedPort(event.id, event.coordinate, h3Index),
                                  existingPorts |-> <<>>]]
    /\ queues' = [queues EXCEPT !["PortCreated"] = Tail(@)]
    /\ UNCHANGED <<storeVars, cacheVars, channel, isH3Only, outbox, broker, flightVars, pc, call>>

CachePortSet(w) ==
    /\ writers[w].step = "set"
    /\ portCache' = cachePortSet(portCache, writers[w].port)
    /\ writers' = [writers EXCEPT ![w].step = "read"]
    /\ UNCHANGED <<storeVars, queues, h3Cache, nearestCache, channel, isH3Only,
                   outbox, broker, flightVars, rejected, pc, call>>

CachePortRead(w) ==
    /\ writers[w].step = "read"
    /\ writers' = [writers EXCEPT
                     ![w].step = "write",
                     ![w].existingPorts = cachePortRead(h3Cache, writers[w].port)]
    /\ UNCHANGED <<storeVars, queues, cacheVars, channel, isH3Only, outbox, broker, flightVars,
                   rejected, pc, call>>

\* the last step of cachePort; the handler returns and the message is acked
CachePortWrite(w) ==
    /\ writers[w].step = "write"
    /\ h3Cache' = cachePortWrite(h3Cache, writers[w].port, writers[w].existingPorts)
    /\ writers' = [writers EXCEPT ![w] = NoWriter]
    /\ UNCHANGED <<storeVars, queues, portCache, nearestCache, channel, isH3Only,
                   outbox, broker, flightVars, rejected, pc, call>>

(* --------------------------- CacheWarmingService ----------------------- *)
WarmupCenter == 80000             \* latitude 40.0, in steps
WarmupRadiusKm == 20000

\* getAllPortsFromService: the rows findNearbyPorts answers with, [] when the
\* request fails
getAllPortsFromService(rows, storeUp, order) ==
    IF storeUp
    THEN Prefix(order, NearbyIds(rows, WarmupCenter, WarmupRadiusKm))
    ELSE <<>>

\* the loop over the fetched ports: cachePort for each, a port whose coordinate
\* is rejected skipped
RECURSIVE WarmPorts(_, _, _, _)
WarmPorts(pcache, h3, rows, ids) ==
    IF ids = <<>> THEN <<pcache, h3>>
    ELSE LET id == Head(ids)
             portCoord == rows[id].coordinate
             cachedPort == [CachedPort(id, portCoord, coordinateToH3(portCoord))
                              EXCEPT !.isActive = rows[id].isActive]
             c == IF CoordinateThrows(portCoord) THEN <<pcache, h3>>
                  ELSE cachePort(pcache, h3, cachedPort)
         IN  WarmPorts(c[1], c[2], rows, Tail(ids))

\* h3Groups[h3Index]: the fetched ports of the cell, in the order fetched
RECURSIVE h3Groups(_, _, _)
h3Groups(rows, ids, h3Index) ==
    IF ids = <<>> THEN <<>>
    ELSE LET id == Head(ids)
             portCoord == rows[id].coordinate
             cachedPort == [CachedPort(id, portCoord, coordinateToH3(portCoord))
                              EXCEPT !.isActive = rows[id].isActive]
         IN  (IF ~CoordinateThrows(portCoord) /\ coordinateToH3(portCoord) = h3Index
              THEN <<cachedPort>> ELSE <<>>)
             \o h3Groups(rows, Tail(ids), h3Index)

\* cachePortsByH3Index for every cell that has a group
WarmCells(h3, rows, ids) ==
    [c \in DOMAIN h3 |->
        IF h3Groups(rows, ids, c) # <<>>
        THEN cachePortsByH3Index(h3, c, h3Groups(rows, ids, c))[c]
        ELSE h3[c]]

\* clearAllCache that leaves the cache as it is
warmupCache_NoClear(pcache, h3, np, rows, ids) ==
    IF ids = <<>> THEN <<pcache, h3, np>>
    ELSE LET w == WarmPorts(pcache, h3, rows, ids)
         IN  <<w[1], WarmCells(w[2], rows, ids), np>>

\* warmupCache on the fetched ports ids: <<port map, cell index, memo>>
warmupCache(pcache, h3, np, rows, ids) ==
    LET cleared == clearAllCache(pcache, h3, np)
    IN  IF ids = <<>> THEN cleared
        ELSE LET w == WarmPorts(cleared[1], cleared[2], rows, ids)
             IN  <<w[1], WarmCells(w[2], rows, ids), cleared[3]>>

\* the call as a warmup starts: what the cache holds is recorded
WarmCall(storeUp, ids) ==
    [NoCall EXCEPT !.outcome = "warmed",
                   !.fetch = IF storeUp THEN "fetched" ELSE "failed",
                   !.fetched = ids,
                   !.before = {p \in PortIds : portCache[p].id # NoId}
                              \cup UNION {IdsOf(h3Cache[c]) : c \in DOMAIN h3Cache},
                   !.memoBefore = \E k \in DOMAIN nearestCache :
                                     nearestCache[k].portId # NoId]

\* warmupCache at startup or through manualWarmup, no handler running
\* meanwhile; storeUp: whether findNearbyPorts reaches the port service
WarmupCache(storeUp, order) ==
    LET ids == getAllPortsFromService(ports, storeUp, order)
        c == warmupCache(portCache, h3Cache, nearestCache, ports, ids)
    IN  /\ pc = "idle"
        /\ call' = WarmCall(storeUp, ids)
        /\ pc' = "done"
        /\ portCache' = c[1]
        /\ h3Cache' = c[2]
        /\ nearestCache' = c[3]
        /\ UNCHANGED <<storeVars, queues, channel, isH3Only, auxVars, rejected>>

(* ------------------ warmupCache, one await at a time ------------------- *)
\* The consumers are set up when the module starts and the warmup runs five
\* seconds later, or on manualWarmup: handlers run between its awaits.  The
\* rows fetched are those of the store: no row changes while a warmup runs.

Range(s) == {s[i] : i \in 1..Len(s)}

\* GroupCells with an entry for every cell, the cells without a group included
GroupCells_EveryCell(rows, ids, seen) ==
    LET RECURSIVE All(_)
        All(S) == IF S = {} THEN <<>>
                  ELSE LET c == CHOOSE x \in S : \A y \in S : x <= y
                       IN  <<c>> \o All(S \ {c})
    IN  All(Cells)

\* Object.entries(h3Groups): the cells that have a group, in the order their
\* first port was fetched
RECURSIVE GroupCells(_, _, _)
GroupCells(rows, ids, seen) ==
    IF ids = <<>> THEN <<>>
    ELSE LET portCoord == rows[Head(ids)].coordinate
             c == coordinateToH3(portCoord)
             new == ~CoordinateThrows(portCoord) /\ c \notin seen
         IN  (IF new THEN <<c>> ELSE <<>>)
             \o GroupCells(rows, Tail(ids), IF new THEN seen \cup {c} ELSE seen)

\* the ports outside the fetched rows that hold a snapshot: a handler has
\* cached them since the warmup cleared the cache
CachedMeanwhile(w, pcache) ==
    {p \in PortIds : pcache[p].id = p /\ p \notin Range(w.fetched)}

\* the warmup returns
Completed(w, pcache, h3) ==
    [w EXCEPT !.step = "done", !.todo = <<>>, !.cells = <<>>,
              !.kept = {p \in CachedMeanwhile(w, pcache) :
                           p \in IdsOf(getPortsByH3Index(h3, pcache[p].h3Index))},
              !.dropped = {p \in CachedMeanwhile(w, pcache) :
                              p \notin IdsOf(getPortsByH3Index(h3, pcache[p].h3Index))}]

\* await clearAllCache()
WarmupClear ==
    LET c == clearAllCache(portCache, h3Cache, nearestCache)
    IN  /\ pc = "idle"
        /\ warm.step \in {"idle", "done"}
        /\ warm' = [NoWarm EXCEPT !.step = "fetch"]
        /\ portCache' = c[1]
        /\ h3Cache' = c[2]
        /\ nearestCache' = c[3]
        /\ UNCHANGED <<storeVars, queues, channel, isH3Only, outbox, broker, writers,
                       saving, jobs, rejected, pc, call>>

\* await getAllPortsFromService(), and the return on an empty answer
WarmupFetch(storeUp, order) ==
    LET ids == getAllPortsFromService(ports, storeUp, order)
        fetched == [warm EXCEPT !.fetched = ids, !.todo = ids]
    IN  /\ warm.step = "fetch"
        /\ warm' = IF ids = <<>> THEN Completed(fetched, portCache, h3Cache)
                   ELSE [fetched EXCEPT !.step = "ports"]
        /\ UNCHANGED <<storeVars, queues, cacheVars, channel, isH3Only, outbox, broker,
                       writers, saving, jobs, rejected, pc, call>>

\* one turn of the loop over the fetched ports: await cachePort(cachedPort)
WarmupCachePort ==
    LET c == WarmPorts(portCache, h3Cache, ports, <<Head(warm.todo)>>)
        cells == GroupCells(ports, warm.fetched, {})
        next == [warm EXCEPT !.todo = Tail(@)]
    IN  /\ warm.step = "ports"
        /\ portCache' = c[1]
        /\ h3Cache' = c[2]
        /\ warm' = IF next.todo # <<>> THEN next
                   ELSE IF cells = <<>> THEN Completed(next, c[1], c[2])
                   ELSE [next EXCEPT !.step = "cells", !.cells = cells]
        /\ UNCHANGED <<storeVars, queues, nearestCache, channel, isH3Only, outbox,
                       broker, writers, saving, jobs, rejected, pc, call>>

\* one turn of the loop over h3Groups: await cachePortsByH3Index(h3Index, groupPorts)
WarmupCacheCell ==
    LET h3Index == Head(warm.cells)
        h3 == cachePortsByH3Index(h3Cache, h3Index,
                                  h3Groups(ports, warm.fetched, h3Index))
        next == [warm EXCEPT !.cells = Tail(@)]
    IN  /\ warm.step = "cells"
        /\ h3Cache' = h3
        /\ warm' = IF next.cells # <<>> THEN next
                   ELSE Completed(next, portCache, h3)
        /\ UNCHANGED <<storeVars, queues, portCache, nearestCache, channel, isH3Only,
                       outbox, broker, writers, saving, jobs, rejected, pc, call>>

(* ----------------------- steps on a failing cache ---------------------- *)
\* A step run while the cache store fails: every get answers as a miss and
\* every set, del and reset leaves the store as it is, unless the failure
\* reaches the caller, which then ends in an error (a handler in a nack).
NoCells == [c \in Cells |-> <<>>]
NoSnapshots == [p \in PortIds |-> NoPort]

Aborted == [call EXCEPT !.outcome = "error", !.cacheDown = TRUE]

MemoCheckCacheDown ==
    /\ pc = "memo"
    /\ IF CacheFailureRaised(TRUE)
       THEN call' = Aborted /\ pc' = "done"
       ELSE /\ call' = [call EXCEPT !.memoCheck = "miss", !.cacheDown = TRUE]
            /\ pc' = "search"
    /\ UNCHANGED <<storeVars, queues, cacheVars, channel, isH3Only, auxVars, rejected>>

SearchCacheDown ==
    LET nearestPort == findNearestPortUsingH3(NoCells, call.coordinate,
                                              call.maxRadiusKm)
    IN  /\ pc = "search"
        /\ IF CacheFailureRaised(TRUE)
           THEN call' = Aborted /\ pc' = "done"
           ELSE IF nearestPort.portId # NoId
           THEN /\ call' = [call EXCEPT !.nearestPort = nearestPort,
                                        !.source = "ring", !.searches = @ + 1,
                                        !.cacheDown = TRUE]
                /\ pc' = "guard"
           ELSE IF isH3Only
           THEN /\ call' = [call EXCEPT !.outcome = "notfound", !.searches = @ + 1,
                                        !.cacheDown = TRUE]
                /\ pc' = "done"
           ELSE /\ call' = [call EXCEPT !.searches = @ + 1, !.cacheDown = TRUE]
                /\ pc' = "fallback"
        /\ UNCHANGED <<storeVars, queues, cacheVars, channel, isH3Only, auxVars, rejected>>

FallbackCacheDown(storeUp, order) ==
    /\ pc = "fallback"
    /\ IF ~storeUp
       THEN /\ call' = [call EXCEPT !.outcome = "error", !.fallback = "unavailable",
                                    !.cacheDown = TRUE]
            /\ pc' = "done"
       ELSE IF CacheFailureRaised(TRUE)
       THEN call' = Aborted /\ pc' = "done"
       ELSE LET r == FallbackLoop(NoSnapshots, NoCells, ports, order, call.coordinate,
                                  fallbackRadii(call.maxRadiusKm))
            IN  IF r[1].portId # NoId
                THEN /\ call' = [call EXCEPT !.nearestPort = r[1],
                                             !.source = "fallback",
                                             !.fallback = "fetched",
                                             !.cacheDown = TRUE]
                     /\ pc' = "guard"
                ELSE /\ call' = [call EXCEPT !.outcome = "notfound",
                                             !.fallback = "fetched",
                                             !.cacheDown = TRUE]
                     /\ pc' = "done"
    /\ UNCHANGED <<storeVars, queues, cacheVars, channel, isH3Only, auxVars, rejected>>

GuardCacheDown(storeUp) ==
    LET nearestPort == call.nearestPort
        again == findNearestPortUsingH3(NoCells, call.coordinate, call.maxRadiusKm)
    IN  /\ pc = "guard"
        /\ pc' = "done"
        /\ IF ~storeUp
           THEN call' = [call EXCEPT
                           !.guard = "unavailable",
                           !.unverified = IF @.portId = NoId THEN nearestPort ELSE @,
                           !.nearestPort = NoMatch,
                           !.outcome = "notfound",
                           !.getByIdCalls = @ + 1,
                           !.cacheDown = TRUE]
           ELSE IF CacheFailureRaised(TRUE)
           THEN call' = [Aborted EXCEPT !.getByIdCalls = @ + 1]
           ELSE IF getPortById(ports, nearestPort.portId)
           THEN call' = [call EXCEPT !.guard = "valid", !.outcome = "found",
                                     !.resolved = @ \cup {nearestPort.portId},
                                     !.getByIdCalls = @ + 1,
                                     !.cacheDown = TRUE]
           ELSE call' = [call EXCEPT
                           !.guard = "stale",
                           !.stale = @ \cup {nearestPort.portId},
                           !.nearestPort = again,
                           !.source = IF again.portId = NoId THEN @ ELSE "research",
                           !.outcome = IF again.portId = NoId THEN "notfound"
                                       ELSE "found",
                           !.searches = @ + 1,
                           !.getByIdCalls = @ + 1,
                           !.cacheDown = TRUE]
        /\ UNCHANGED <<storeVars, queues, cacheVars, channel, isH3Only, auxVars, rejected>>

FindPortsInRadiusCacheDown(coordinate, radiusKm) ==
    /\ pc = "idle"
    /\ call' = IF CacheFailureRaised(TRUE)
               THEN [NewCall(coordinate, radiusKm) EXCEPT
                       !.outcome = "error", !.cacheDown = TRUE]
               ELSE [NewCall(coordinate, radiusKm) EXCEPT
                       !.outcome = "list", !.cacheDown = TRUE,
                       !.portsInRadius = findPortsInRadius(NoCells, coordinate,
                                                           radiusKm)]
    /\ pc' = "done"
    /\ UNCHANGED <<storeVars, queues, cacheVars, channel, isH3Only, auxVars, rejected>>

\* a handler of the synchronizer on the message at the head of queue t
HandlerCacheDown(t) ==
    /\ pc = "idle"
    /\ queues[t] # <<>>
    /\ LET event == Head(queues[t])
           throws == \/ t # "PortH3IndexUpdated" /\ CoordinateThrows(event.coordinate)
                     \/ CacheFailureRaised(TRUE)
                     \/ t = "PortH3IndexUpdated" /\ H3UpdatedThrows(NoSnapshots, event)
       IN  rejected' = IF throws THEN rejected + 1 ELSE rejected
    /\ queues' = [queues EXCEPT ![t] = Tail(@)]
    /\ UNCHANGED <<storeVars, cacheVars, channel, isH3Only, auxVars, pc, call>>

WarmupCacheDown(storeUp, order) ==
    LET ids == getAllPortsFromService(ports, storeUp, order)
    IN  /\ pc = "idle"
        /\ call' = IF CacheFailureRaised(TRUE)
                   THEN [WarmCall(storeUp, ids) EXCEPT
                           !.outcome = "error", !.cacheDown = TRUE]
                   ELSE [WarmCall(storeUp, ids) EXCEPT !.cacheDown = TRUE]
        /\ pc' = "done"
        /\ UNCHANGED <<storeVars, queues, cacheVars, channel, isH3Only, auxVars,
                       rejected>>

\* calculateRequiredH3Rings applied to two radii, as two calls of it
RequiredRings(r1, r2) ==
    /\ pc = "idle"
    /\ call' = [NoCall EXCEPT
                  !.outcome = "rings",
                  !.radii = <<r1, r2>>,
                  !.rings = <<calculateRequiredH3Rings(r1),
                              calculateRequiredH3Rings(r2)>>]
    /\ pc' = "done"
    /\ UNCHANGED <<storeVars, queues, cacheVars, channel, isH3Only, auxVars, rejected>>

Return ==
    /\ pc = "done"
    /\ pc' = "idle"
    /\ call' = NoCall
    /\ UNCHANGED <<storeVars, queues, cacheVars, channel, isH3Only, auxVars, rejected>>

(* ----------------------------- specification --------------------------- *)
Next ==
    \/ \E id \in PortIds, coordinate \in PortCoords : createPort(id, coordinate)
    \/ \E id \in PortIds, name \in BOOLEAN, coord \in PortCoords \cup {NoCoord} :
          updatePort(id, name, coord)
    \/ \E id \in PortIds : deletePort(id)
    \/ \E id \in PortIds : RepositoryDelete(id)
    \/ handlePortCreated
    \/ handlePortUpdated
    \/ handlePortH3Updated
    \/ \E coordinate \in QueryCoords, maxRadiusKm \in Radii, brokerUp, accepted \in BOOLEAN :
          FindNearestPort(coordinate, maxRadiusKm, brokerUp, accepted)
    \/ \E storeUp \in BOOLEAN : MemoCheck(storeUp)
    \/ Search
    \/ \E storeUp \in BOOLEAN : \E order \in StoreOrders(ports, call.coordinate) :
          Fallback(storeUp, order)
    \/ \E storeUp \in BOOLEAN : Guard(storeUp)
    \/ Return

Spec == Init /\ [][Next]_vars

\* The queries of the location service on a store that ports are added to,
\* the cache fed by the Created events and by the resolver itself; the ports
\* and the queries are those of FarPortCoords and FarQueryCoords.
QueryNext ==
    \/ \E id \in PortIds, coordinate \in FarPortCoords : createPort(id, coordinate)
    \/ handlePortCreated
    \/ \E coordinate \in FarQueryCoords, maxRadiusKm \in FarRadii,
          brokerUp, accepted \in BOOLEAN :
          FindNearestPort(coordinate, maxRadiusKm, brokerUp, accepted)
    \/ \E storeUp \in BOOLEAN : MemoCheck(storeUp)
    \/ Search
    \/ \E storeUp \in BOOLEAN : \E order \in StoreOrders(ports, call.coordinate) :
          Fallback(storeUp, order)
    \/ \E storeUp \in BOOLEAN : Guard(storeUp)
    \/ \E coordinate \in FarQueryCoords, radiusKm \in ListRadii :
          FindPortsInRadius(coordinate, radiusKm)
    \/ Return

QuerySpec == Init /\ [][QueryNext]_vars

\* The location service with its warmup, on a store whose rows come and go.
WarmNext ==
    \/ \E id \in PortIds, coordinate \in PortCoords : createPort(id, coordinate)
    \/ \E id \in PortIds : deletePort(id)
    \/ \E id \in PortIds : RepositoryDelete(id)
    \/ handlePortCreated
    \/ \E coordinate \in QueryCoords, maxRadiusKm \in Radii, brokerUp, accepted \in BOOLEAN :
          FindNearestPort(coordinate, maxRadiusKm, brokerUp, accepted)
    \/ \E storeUp \in BOOLEAN : MemoCheck(storeUp)
    \/ Search
    \/ \E storeUp \in BOOLEAN : \E order \in StoreOrders(ports, call.coordinate) :
          Fallback(storeUp, order)
    \/ \E storeUp \in BOOLEAN : Guard(storeUp)
    \/ \E storeUp \in BOOLEAN : \E order \in StoreOrders(ports, WarmupCenter) :
          WarmupCache(storeUp, order)
    \/ Return

WarmSpec == Init /\ [][WarmNext]_vars

\* The services with a cache store that may fail during any step; the queries
\* carry no radius bound and the broker accepts the request events.
FailNext ==
    \/ \E id \in PortIds, coordinate \in PortCoords : createPort(id, coordinate)
    \/ \E id \in PortIds, coord \in PortCoords : updatePort(id, FALSE, coord)
    \/ \E id \in PortIds : RepositoryDelete(id)
    \/ handlePortCreated
    \/ \E t \in EventTypes : HandlerCacheDown(t)
    \/ \E coordinate \in QueryCoords :
          FindNearestPort(coordinate, INF, TRUE, TRUE)
    \/ \E storeUp \in BOOLEAN : MemoCheck(storeUp)
    \/ MemoCheckCacheDown
    \/ Search
    \/ SearchCacheDown
    \/ \E storeUp \in BOOLEAN : \E order \in StoreOrders(ports, call.coordinate) :
          Fallback(storeUp, order)
    \/ \E storeUp \in BOOLEAN : \E order \in StoreOrders(ports, call.coordinate) :
          FallbackCacheDown(storeUp, order)
    \/ \E storeUp \in BOOLEAN : Guard(storeUp)
    \/ \E storeUp \in BOOLEAN : GuardCacheDown(storeUp)
    \/ \E coordinate \in QueryCoords :
          FindPortsInRadiusCacheDown(coordinate, 10)
    \/ \E storeUp \in BOOLEAN : \E order \in StoreOrders(ports, WarmupCenter) :
          WarmupCacheDown(storeUp, order)
    \/ Return

FailSpec == Init /\ [][FailNext]_vars

\* Ports created and their Created events handled by runs that overlap.
RaceNext ==
    \/ \E id \in PortIds, coordinate \in PortCoords : createPort(id, coordinate)
    \/ \E w \in WriterIds : ConsumePortCreated(w)
    \/ \E w \in WriterIds : CachePortSet(w)
    \/ \E w \in WriterIds : CachePortRead(w)
    \/ \E w \in WriterIds : CachePortWrite(w)

RaceSpec == Init /\ [][RaceNext]_vars

\* The outbox of the port service and its two jobs, which run whenever they
\* have a row to work on (their cron schedules never stop).
OutboxEvents == {Event("PortCreated", id, 2, 0) : id \in PortIds}

OutboxNext ==
    \/ \E event \in OutboxEvents : saveEvent(event)
    \/ processOutboxEvents
    \/ retryFailedEvents
    \/ BrokerDown
    \/ BrokerUp

OutboxSpec ==
    /\ Init /\ [][OutboxNext]_vars
    /\ WF_vars(processOutboxEvents)
    /\ WF_vars(retryFailedEvents)

\* The outbox jobs with overlapping runs and failing saves, on rows that
\* carry the same event.
JobEvents == {Event("PortCreated", 1, 2, 0)}

JobsNext ==
    \/ \E event \in JobEvents : Len(outbox) < MaxJobRows /\ saveEvent(event)
    \/ \E r \in RunIds, kind \in JobKinds : JobStart(r, kind)
    \/ \E r \in RunIds : JobPublish(r)
    \/ \E r \in RunIds, ok \in BOOLEAN : JobSave(r, ok)
    \/ \E r \in RunIds, ok \in BOOLEAN : JobSaveFailed(r, ok)
    \/ BrokerDown
    \/ BrokerUp

JobsSpec == Init /\ [][JobsNext]_vars

\* A warmup with the store growing and the Created handler running meanwhile.
WarmRaceNext ==
    \/ \E id \in PortIds, coordinate \in PortCoords : createPort(id, coordinate)
    \/ handlePortCreated
    \/ WarmupClear
    \/ \E storeUp \in BOOLEAN : \E order \in StoreOrders(ports, WarmupCenter) :
          WarmupFetch(storeUp, order)
    \/ WarmupCachePort
    \/ WarmupCacheCell

WarmRaceSpec == Init /\ [][WarmRaceNext]_vars

\* The resolver on ports near the edges of their cells.
EdgeNext ==
    \/ \E id \in PortIds, coordinate \in EdgePortCoords : createPort(id, coordinate)
    \/ handlePortCreated
    \/ \E coordinate \in EdgeQueryCoords, maxRadiusKm \in EdgeRadii :
          FindNearestPort(coordinate, maxRadiusKm, TRUE, TRUE)
    \/ MemoCheck(TRUE)
    \/ Search
    \/ \E order \in StoreOrders(ports, call.coordinate) : Fallback(TRUE, order)
    \/ Guard(TRUE)
    \/ Return

EdgeSpec == Init /\ [][EdgeNext]_vars

\* The writes of the port service, save by save.
WriteNext ==
    \/ \E id \in PortIds, coordinate \in PortCoords : createPortSave(id, coordinate)
    \/ \E id \in PortIds, name \in BOOLEAN, coord \in PortCoords \cup {NoCoord} :
          updatePortSave(id, name, coord)
    \/ saveNextEvent
    \/ WriteAborted

WriteSpec == Init /\ [][WriteNext]_vars

\* calculateRequiredH3Rings on the radii of RingRadii
RingsNext ==
    \/ \E r1, r2 \in RingRadii : RequiredRings(r1, r2)
    \/ Return

RingsSpec == Init /\ [][RingsNext]_vars

(* ------------------------------ properties ----------------------------- *)
Finished == pc = "done"
Found == Finished /\ call.outcome = "found"

CellsHolding(id) == {c \in Cells : id \in IdsOf(h3Cache[c])}

HasPending(id) ==
    \E t \in EventTypes : \E i \in 1..Len(queues[t]) : queues[t][i].id = id

\* C1: a call that returns a match has seen that match's port id resolve in
\* the store (getPortById returned a record) during the call
C1_ReturnedMatchResolved ==
    Found => call.nearestPort.portId \in call.resolved

\* C2: once a call has found a candidate stale, no memo entry of the queried
\* rounded coordinate, under any radius bound, still names the stale port
C2_NoMemoOfStalePort ==
    (Finished /\ call.stale # {}) =>
        \A r \in Radii :
            getNearestPortFromCache(nearestCache, call.coordinate, r).portId
                \notin call.stale

\* C3: a port deactivated by deletePort is never the match a call returns
C3_DeletedNeverReturned ==
    Found => ~(/\ ports[call.nearestPort.portId].exists
               /\ ~ports[call.nearestPort.portId].isActive)

\* C4: when getPortById cannot reach the store while a candidate is being
\* validated, the call returns that candidate
C4_UnreachableReturnsCandidate ==
    (Finished /\ call.unverified.portId # NoId) =>
        /\ call.outcome = "found"
        /\ call.nearestPort = call.unverified

\* C5: a staleness check that fails because the store is unreachable leaves
\* the point map, the cell index and the memo as they were
C5_UnreachableKeepsCache ==
    [][ (\/ call'.memoCheck = "unavailable" /\ call.memoCheck # "unavailable"
         \/ call'.guard = "unavailable" /\ call.guard # "unavailable")
        => UNCHANGED cacheVars ]_vars

\* C6: a failed publish of the query-observed notification never fails the call
C6_PublishFailureSwallowed ==
    (Finished /\ call.publishFailed) => call.outcome # "error"

Rank(p) == CASE p = "idle" -> 0 [] p = "memo" -> 1 [] p = "search" -> 2
                [] p = "fallback" -> 3 [] p = "guard" -> 4 [] p = "done" -> 5

\* C7: per call the ring search runs at most twice and getPortById is called
\* at most twice, and every call comes to its end: each step of a call in
\* flight takes it strictly nearer to its return, none takes it back
C7_BoundedRetry ==
    /\ [](call.searches <= 2 /\ call.getByIdCalls <= 2)
    /\ [][pc \notin {"idle", "done"} => Rank(pc') > Rank(pc)]_vars

C7_Witness ==
    /\ Finished
    /\ call.memoCheck = "stale"
    /\ call.guard = "stale"
    /\ call.searches = 2
    /\ call.getByIdCalls = 2

\* C8: each port id is in at most one cell entry of the cache
C8_OneCellPerPort ==
    \A id \in PortIds : Cardinality(CellsHolding(id)) <= 1

\* C9: a port deleted in the store, with every event about it processed, has
\* no snapshot in the point map and is in no cell entry
C9_DeletedLeavesCache ==
    \A id \in PortIds :
        (ports[id].exists /\ ~ports[id].isActive /\ ~HasPending(id)) =>
            /\ portCache[id] = NoPort
            /\ CellsHolding(id) = {}

\* the step that processes the H3-index-updated event at the head of its queue
H3UpdatedStep ==
    /\ queues["PortH3IndexUpdated"] # <<>>
    /\ queues'["PortH3IndexUpdated"] = Tail(queues["PortH3IndexUpdated"])

\* C10 as claimed: after the event for port p and cell c' is processed, p is
\* in the entry of c' whether or not the cache knew p, and is out of the
\* entry of its previously cached cell
C10_AppendAlways ==
    [][ H3UpdatedStep =>
          LET event == Head(queues["PortH3IndexUpdated"])
              old == portCache[event.id]
          IN  /\ event.id \in IdsOf(h3Cache'[event.h3Index])
              /\ (old.id # NoId /\ old.h3Index # event.h3Index)
                    => event.id \notin IdsOf(h3Cache'[old.h3Index]) ]_vars

\* C10 as amended: when p has a snapshot in the point map, p ends up in the
\* entry of c' and out of the entry of its previously cached cell; when it
\* has none, the handler leaves the cache as it is
C10_RelocateKnown ==
    [][ H3UpdatedStep =>
          LET event == Head(queues["PortH3IndexUpdated"])
              old == portCache[event.id]
          IN  IF old.id # NoId
              THEN /\ event.id \in IdsOf(h3Cache'[event.h3Index])
                   /\ portCache'[event.id].h3Index = event.h3Index
                   /\ old.h3Index # event.h3Index
                         => event.id \notin IdsOf(h3Cache'[old.h3Index])
              ELSE UNCHANGED cacheVars ]_vars

\* a snapshot whose cell is not the cell of its coordinate: the handler has
\* relocated a port the cache knew
C10_Witness ==
    \E id \in PortIds :
        /\ portCache[id].id # NoId
        /\ portCache[id].h3Index # coordinateToH3(portCache[id].coordinate)
        /\ id \in IdsOf(h3Cache[portCache[id].h3Index])
        /\ id \notin IdsOf(h3Cache[coordinateToH3(portCache[id].coordinate)])

\* the step that takes the message at the head of queue t to its handler
HandlerStep(t) ==
    /\ queues[t] # <<>>
    /\ queues'[t] = Tail(queues[t])

\* C11: processing an Updated event changes no memo entry but those keyed by
\* the rounded coordinate the event carries (the port's new coordinate)
C11_MemoFrame ==
    [][ HandlerStep("PortUpdated") =>
          LET event == Head(queues["PortUpdated"])
          IN  \A k \in MemoKeys :
                  k[1] # Round3(event.coordinate) => nearestCache'[k] = nearestCache[k] ]_vars

\* every Updated event is processed, and a memo keyed in the bucket of a
\* port's old coordinate still names the port where it no longer is
C11_Witness ==
    /\ queues["PortUpdated"] = <<>>
    /\ \E id \in PortIds, k \in MemoKeys :
          /\ nearestCache[k].portId = id
          /\ portCache[id].id = id
          /\ nearestCache[k].coordinate # portCache[id].coordinate
          /\ k[1] = Round3(nearestCache[k].coordinate)
          /\ k[1] # Round3(portCache[id].coordinate)

\* C12: the cache a Created event leaves is the cache a second application of
\* the same event leaves: same point map, same cell entries
C12_CreatedIdempotent ==
    [][ HandlerStep("PortCreated") =>
          LET event == Head(queues["PortCreated"])
              port == CachedPort(event.id, event.coordinate,
                                 coordinateToH3(event.coordinate))
          IN  cachePort(portCache', h3Cache', port) = <<portCache', h3Cache'>> ]_vars

\* every Created event is processed and one of them was applied to a cell
\* entry that held another port: its port is the last of the entry
C12_Witness ==
    /\ queues["PortCreated"] = <<>>
    /\ issued = PortIds
    /\ \E c \in Cells :
          /\ Len(h3Cache[c]) = 2
          /\ h3Cache[c][1].id # h3Cache[c][2].id
          /\ portCache[h3Cache[c][2].id] = h3Cache[c][2]

\* C13: a handler that runs for a port id with no snapshot in the point map
\* returns without throwing: its message is acknowledged, not rejected
C13_AbsentAcked ==
    [][ \A t \in EventTypes :
          (HandlerStep(t) /\ getPort(portCache, Head(queues[t]).id) = NoPort)
              => rejected' = rejected ]_vars

\* port id moved in the store, its H3-index-updated event processed while its
\* Created event is still on its way: the cache never held the port
C13_Witness ==
    \E id \in PortIds :
        /\ ports[id].exists
        /\ portCache[id] = NoPort
        /\ queues["PortH3IndexUpdated"] = <<>>
        /\ \E i \in 1..Len(queues["PortCreated"]) :
              /\ queues["PortCreated"][i].id = id
              /\ queues["PortCreated"][i].coordinate # ports[id].coordinate
        /\ rejected = 0

\* the ports the ring search of the call in flight collects from the cache
Collected ==
    RingLoop(h3Cache, coordinateToH3(call.coordinate), 0,
             SearchMaxRing(call.maxRadiusKm))

\* port p of the cache is an eligible candidate of the call in flight
Eligible(p) ==
    /\ calculateH3Distance(coordinateToH3(call.coordinate), p.h3Index) <= 10
    /\ IsFinite(call.maxRadiusKm) =>
          calculateDistance(call.coordinate, p.coordinate) <= call.maxRadiusKm * 1000

\* C14: the ring search step selects, among the collected candidates that
\* are eligible, one of minimum score gridDist * 1000 + haversine (km): no
\* eligible candidate has a smaller grid distance, and none of the same grid
\* distance is nearer; without an eligible candidate it selects nothing
C14_MinScoreSelected ==
    [][ pc = "search" =>
          LET h3Index == coordinateToH3(call.coordinate)
              E == {i \in 1..Len(Collected) : Eligible(Collected[i])}
              grid(i) == calculateH3Distance(h3Index, Collected[i].h3Index)
              km(i) == calculateDistance(call.coordinate, Collected[i].coordinate)
          IN  IF E = {}
              THEN call'.nearestPort = NoMatch /\ pc' # "guard"
              ELSE /\ pc' = "guard"
                   /\ \E i \in E :
                         /\ call'.nearestPort = MatchOf(h3Index, call.coordinate,
                                                        Collected[i])
                         /\ \A j \in E :
                               /\ grid(i) * 1000000 + km(i) <= grid(j) * 1000000 + km(j)
                               /\ \/ grid(i) < grid(j)
                                  \/ grid(i) = grid(j) /\ km(i) <= km(j) ]_vars

\* the search has selected the port of the query cell, the nearer of the two
\* that cell holds, while the next cell holds a port nearer than both
C14_Witness ==
    /\ pc = "guard"
    /\ call.source = "ring"
    /\ call.nearestPort.h3Distance = 0
    /\ \E id \in PortIds :
          /\ portCache[id].id = id
          /\ id \in IdsOf(h3Cache[portCache[id].h3Index])
          /\ calculateH3Distance(coordinateToH3(call.coordinate), portCache[id].h3Index) = 1
          /\ calculateDistance(call.coordinate, portCache[id].coordinate)
                < call.nearestPort.distanceKm

\* two ports in the query cell, the farther one first in the entry, and the
\* search has selected the nearer one
C14_WitnessTie ==
    /\ pc = "guard"
    /\ call.source = "ring"
    /\ LET entry == h3Cache[coordinateToH3(call.coordinate)]
       IN  /\ Len(entry) = 2
           /\ calculateDistance(call.coordinate, entry[1].coordinate)
                 > calculateDistance(call.coordinate, entry[2].coordinate)
           /\ call.nearestPort.portId = entry[2].id

\* C15: a call with a finite radius bound R never returns a match farther
\* than R (haversine) from the coordinate it was asked for
C15_WithinRadius ==
    (Found /\ IsFinite(call.maxRadiusKm)) =>
        calculateDistance(call.coordinate, call.nearestPort.coordinate)
            <= call.maxRadiusKm * 1000

\* the store holds port id, active, 30 km from the point, and nothing else
OnlyPort30KmAway(id, coordinate) ==
    /\ ports[id].exists /\ ports[id].isActive
    /\ calculateDistance(coordinate, ports[id].coordinate) \div 100 = 300
    /\ \A other \in PortIds \ {id} : ~ports[other].exists

\* C16: grid-only mode off, nothing memoized and nothing within reach of the
\* ring search (as with a cold cache), the store reachable and holding one
\* port only, 30 km from the query, radius bound 50 km: the call returns
\* that port from the fallback, and the port is in the cache, snapshot and
\* cell entry, when the call returns
C16_FallbackFindsAndHydrates ==
    \A id \in PortIds :
        (/\ Finished
         /\ call.outcome # "list"
         /\ call.maxRadiusKm = 50
         /\ call.memoCheck = "miss"
         /\ call.fallback = "fetched"
         /\ call.guard # "unavailable"
         /\ OnlyPort30KmAway(id, call.coordinate))
        => /\ call.outcome = "found"
           /\ call.nearestPort.portId = id
           /\ call.source = "fallback"
           /\ portCache[id].id = id
           /\ id \in IdsOf(h3Cache[coordinateToH3(ports[id].coordinate)])

\* C17 as claimed: a call that finds a match memoized for its coordinate
\* and radius returns that match and makes no call to the store
C17_MemoNoStoreCall ==
    [][ (/\ pc = "memo"
         /\ getNearestPortFromCache(nearestCache, call.coordinate,
                                    call.maxRadiusKm) # NoMatch)
        => /\ call'.outcome = "found"
           /\ call'.nearestPort = getNearestPortFromCache(nearestCache, call.coordinate,
                                                          call.maxRadiusKm)
           /\ call'.getByIdCalls = 0 ]_vars

\* C17 as amended: when the memoized port passes its existence check, the
\* call returns the memoized match with one call to the store, that check,
\* and with no ring search, no fetch and no change of the cache
C17_MemoOneCheck ==
    /\ [][ LET m == getNearestPortFromCache(nearestCache, call.coordinate,
                                            call.maxRadiusKm)
           IN  (/\ pc = "memo"
                /\ m # NoMatch
                /\ getPortById(ports, m.portId)
                /\ call'.memoCheck # "unavailable")
               => /\ pc' = "done"
                  /\ call'.outcome = "found"
                  /\ call'.nearestPort = m
                  /\ call'.source = "memo"
                  /\ call'.getByIdCalls = 1
                  /\ UNCHANGED cacheVars ]_vars
    /\ []((Finished /\ call.source = "memo") =>
             /\ call.getByIdCalls = 1
             /\ call.searches = 0
             /\ call.fallback = "none")

C17_Witness ==
    /\ Found
    /\ call.source = "memo"
    /\ call.getByIdCalls = 1
    /\ call.nearestPort = getNearestPortFromCache(nearestCache, call.coordinate,
                                                  call.maxRadiusKm)

\* C18: a call whose fallback fetch could not reach the store ends in an
\* error, not in NotFound and not in a match
C18_FallbackUnavailableFails ==
    (Finished /\ call.fallback = "unavailable") => call.outcome = "error"

C18_Witness ==
    /\ Finished
    /\ ~isH3Only
    /\ call.fallback = "unavailable"
    /\ call.searches = 1
    /\ call.nearestPort = NoMatch
    /\ call.outcome = "error"

Listed == Finished /\ call.outcome = "list"

\* the ports of every cell within the required rings of the query cell
InRings ==
    CollectCells(h3Cache, getH3Neighbors(coordinateToH3(call.coordinate),
                                         calculateRequiredH3Rings(call.maxRadiusKm)))

C19_WitnessFiltered ==
    /\ Listed
    /\ Len(InRings) > Len(call.portsInRadius)

\* C20: the ring search scans rings 0, 1, 2, ... and stops after the first
\* ring at which it has collected a cached port; it scans no ring above
\* maxRing = min(requiredRings(R), 10), 10 without a radius bound, so it
\* takes at most 11 ring steps
C20_RingLoopBounded ==
    pc = "search" =>
        LET h3Index == coordinateToH3(call.coordinate)
            maxRing == SearchMaxRing(call.maxRadiusKm)
            At(k) == CollectCells(h3Cache, getH3Neighbors(h3Index, k))
            hit == {k \in 0..maxRing : At(k) # <<>>}
            steps == RingLoopEnd(h3Cache, h3Index, 0, maxRing)
        IN  /\ maxRing = IF IsFinite(call.maxRadiusKm)
                         THEN Min(calculateRequiredH3Rings(call.maxRadiusKm), 10)
                         ELSE 10
            /\ steps <= maxRing + 1
            /\ steps <= 11
            /\ IF hit = {}
               THEN steps = maxRing + 1 /\ Collected = <<>>
               ELSE /\ steps - 1 \in hit
                    /\ \A k \in hit : steps - 1 <= k
                    /\ Collected = At(steps - 1)

\* a search without a radius bound is about to scan all 11 rings in vain
\* while the cache holds a port beyond them
C20_Witness ==
    /\ pc = "search"
    /\ ~IsFinite(call.maxRadiusKm)
    /\ RingLoopEnd(h3Cache, coordinateToH3(call.coordinate), 0,
                   SearchMaxRing(call.maxRadiusKm)) = 11
    /\ \E c \in Cells : h3Cache[c] # <<>>

\* a search is about to stop at ring 1 while the cache holds a port farther out
C20_WitnessStop ==
    /\ pc = "search"
    /\ RingLoopEnd(h3Cache, coordinateToH3(call.coordinate), 0,
                   SearchMaxRing(call.maxRadiusKm)) = 2
    /\ \E c \in Cells :
          /\ h3Cache[c] # <<>>
          /\ calculateH3Distance(coordinateToH3(call.coordinate), c) > 1
          /\ calculateH3Distance(coordinateToH3(call.coordinate), c)
                <= SearchMaxRing(call.maxRadiusKm)

\* C21: calculateRequiredH3Rings is monotone and capped: for radii r1 <= r2
\* the rings of r1 are at most the rings of r2, and no result exceeds 10
C21_MonotoneCapped ==
    (Finished /\ call.outcome = "rings") =>
        /\ call.rings[1] <= MaxRings
        /\ call.rings[2] <= MaxRings
        /\ (call.radii[1] <= call.radii[2] => call.rings[1] <= call.rings[2])

\* two radii with different ring counts below the cap, and one beyond it
C21_Witness ==
    /\ Finished /\ call.outcome = "rings"
    /\ call.radii[1] < call.radii[2]
    /\ 0 < call.rings[1] /\ call.rings[1] < call.rings[2]
    /\ call.rings[2] = MaxRings
    /\ call.radii[2] * 10 > MaxRings * EdgeHm

\* C22: in grid-only mode findNearestPort never reads the memo and never calls
\* the store's findNearbyPorts: the call goes through no memo step and no
\* fallback step, and a match it returns is the one the ring search gives on
\* the cell index, confirmed by the existence check
C22_GridOnlyNoMemoNoFallback ==
    (isH3Only /\ pc # "idle") =>
        /\ pc \notin {"memo", "fallback"}
        /\ call.memoCheck = "none"
        /\ call.fallback = "none"
        /\ Found =>
              /\ call.source \in {"ring", "research"}
              /\ call.source = "ring" => call.nearestPort.portId \in call.resolved
              /\ call.nearestPort = findNearestPortUsingH3(h3Cache, call.coordinate,
                                                           call.maxRadiusKm)

\* a grid-only call answered NotFound although the memo holds a match under its
\* key and the store has an active port the fallback would have fetched
C22_Witness ==
    /\ isH3Only /\ Finished /\ call.outcome = "notfound"
    /\ getNearestPortFromCache(nearestCache, call.coordinate,
                               call.maxRadiusKm).portId # NoId
    /\ NearbyIds(ports, call.coordinate, 50) # {}

CacheIsEmpty ==
    /\ \A p \in PortIds : portCache[p] = NoPort
    /\ \A c \in Cells : h3Cache[c] = <<>>
    /\ \A k \in MemoKeys : nearestCache[k] = NoMatch

\* C26: a warmup whose fetch of the point set fails does not raise and leaves
\* the cache empty
C26_FailedFetchLeavesCacheEmpty ==
    (Finished /\ call.fetch = "failed") =>
        /\ call.outcome = "warmed"
        /\ call.fetched = <<>>
        /\ CacheIsEmpty

\* the fetch failed while the store held an active port and the cache held
\* snapshots and a memoized match
C26_Witness ==
    /\ Finished /\ call.fetch = "failed"
    /\ call.before # {} /\ call.memoBefore
    /\ \E p \in PortIds : ports[p].exists /\ ports[p].isActive

Fetched == {call.fetched[i] : i \in 1..Len(call.fetched)}

\* C27: after a warmup whose fetch succeeded, run with no handler in between,
\* the cache holds exactly the fetched ports: a snapshot for each and for no
\* other port, each cell entry listing once each fetched port of the cell and
\* nothing else, and no memoized match
C27_WarmupExact ==
    (Finished /\ call.outcome = "warmed" /\ call.fetch = "fetched") =>
        /\ \A p \in PortIds :
              portCache[p] =
                 IF p \in Fetched
                 THEN CachedPort(p, ports[p].coordinate,
                                 coordinateToH3(ports[p].coordinate))
                 ELSE NoPort
        /\ \A c \in Cells :
              /\ IdsOf(h3Cache[c]) =
                    {p \in Fetched : coordinateToH3(ports[p].coordinate) = c}
              /\ Len(h3Cache[c]) = Cardinality(IdsOf(h3Cache[c]))
              /\ \A i \in 1..Len(h3Cache[c]) :
                    h3Cache[c][i] = portCache[h3Cache[c][i].id]
        /\ \A k \in MemoKeys : nearestCache[k] = NoMatch

\* the warmup fetched a port while the cache held a port that was not fetched
\* and a memoized match
C27_Witness ==
    /\ Finished /\ call.outcome = "warmed" /\ call.fetch = "fetched"
    /\ Fetched # {}
    /\ call.before \ Fetched # {}
    /\ call.memoBefore

\* the warmup fetched two ports of one cell
C27_WitnessSameCell ==
    /\ Finished /\ call.outcome = "warmed" /\ call.fetch = "fetched"
    /\ \E c \in Cells : Len(h3Cache[c]) = 2

\* the store answered every request of the call in flight, and so did the broker
StoreReached ==
    /\ ~call.publishFailed
    /\ call.memoCheck # "unavailable"
    /\ call.guard # "unavailable"
    /\ call.fallback # "unavailable"

\* C24: a findNearestPort call made on an empty cache, the store reachable and
\* holding an active port eligible for the query, returns a port and not
\* NotFound (the cache is empty when the call ends and the call invalidated
\* nothing, so the cache was empty all along)
C24_EmptyCacheStillFinds ==
    (/\ Finished /\ call.outcome \in {"found", "notfound"}
     /\ CacheIsEmpty /\ call.stale = {}
     /\ StoreReached
     /\ \E p \in PortIds : ports[p].exists /\ ports[p].isActive /\ Eligible(ports[p]))
        => call.outcome = "found"

\* C25: invalidateNearestPortCache(coordinate) removes every memo entry of the
\* rounded coordinate, whatever radius bound it was stored under: once
\* handlePortUpdated has called it for the coordinate of its event, no memo
\* key of that rounded coordinate holds a match
C25_InvalidateClearsEveryRadius ==
    [][ HandlerStep("PortUpdated") =>
          LET event == Head(queues["PortUpdated"])
          IN  \A k \in MemoKeys :
                 k[1] = Round3(event.coordinate) => nearestCache'[k] = NoMatch ]_vars

\* C28: every snapshot in the cache, in the port map or in a cell entry, has
\* as its cell the grid cell of its coordinate
C28_SnapshotCellOfCoordinate ==
    /\ \A p \in PortIds :
          portCache[p].id # NoId =>
              portCache[p].h3Index = coordinateToH3(portCache[p].coordinate)
    /\ \A c \in Cells : \A i \in 1..Len(h3Cache[c]) :
          h3Cache[c][i].h3Index = coordinateToH3(h3Cache[c][i].coordinate)

\* every cachePort call has completed and no Created event waits
WritersDone ==
    /\ \A w \in WriterIds : writers[w].step = "idle"
    /\ queues["PortCreated"] = <<>>

\* the point map holds the snapshot of every port, and the entry of a cell
\* with ports holds at least one of them, each at most once and as written to
\* the point map
PointMapCompleteCellEntryPartial ==
    /\ \A p \in PortIds :
          ports[p].exists =>
              portCache[p] = CachedPort(p, ports[p].coordinate, ports[p].h3Index)
    /\ \A c \in Cells :
          /\ IdsOf(h3Cache[c]) \subseteq {p \in PortIds : ports[p].exists
                                                         /\ ports[p].h3Index = c}
          /\ (\E p \in PortIds : ports[p].exists /\ ports[p].h3Index = c)
                => h3Cache[c] # <<>>
          /\ Len(h3Cache[c]) = Cardinality(IdsOf(h3Cache[c]))
          /\ \A i \in 1..Len(h3Cache[c]) :
                h3Cache[c][i] = portCache[h3Cache[c][i].id]

\* C29: cachePort updates the cell entry by a read and a later write that are
\* not atomic: the entry a call writes is the list it read before, with its
\* port, whatever other calls wrote to the entry in between.  Once overlapping
\* calls have all completed the point map holds every port and the entry of
\* a cell with ports at least one of them; that it holds all of them is not
\* guaranteed (C29_Witness)
C29_NonAtomicReadModifyWrite ==
    /\ [](WritersDone => PointMapCompleteCellEntryPartial)
    /\ [][ \A w \in WriterIds :
               (writers[w].step = "write" /\ writers'[w].step = "idle") =>
                  LET port == writers[w].port
                  IN  h3Cache'[port.h3Index] =
                         Append(SelectSeqBy(writers[w].existingPorts, port.id), port)
          ]_vars

\* two cachePort calls for two ports of one cell have both completed: the
\* point map holds both ports, the cell entry one of them only
C29_Witness ==
    /\ WritersDone
    /\ portCache[1].id = 1 /\ portCache[2].id = 2
    /\ portCache[1].h3Index = portCache[2].h3Index
    /\ Len(h3Cache[portCache[1].h3Index]) = 1

\* C30: every event saved to the outbox is eventually published, provided the
\* broker eventually is available for good (and the jobs keep running, the
\* fairness of OutboxSpec), however many attempts failed before
C30_EventuallyPublished ==
    (<>[]broker) =>
        \A i \in 1..MaxOutbox :
            [](Len(outbox) >= i =>
                  <>(Len(outbox) >= i /\ outbox[i].status = "PUBLISHED"))

\* the rows of the outbox that tell the cache where port p is
PlaceRows(p) ==
    {i \in 1..Len(outbox) : /\ outbox[i].event.id = p
                            /\ outbox[i].event.type \in {"PortCreated", "PortUpdated"}}

\* C31: a port write and its outbox rows are written atomically: once a write
\* request is over, however it ended, every port row has its Created row in
\* the outbox and the latest Created or Updated row of the port carries the
\* coordinate the port row holds
C31_PortAndEventAtomic ==
    saving = <<>> =>
        \A p \in PortIds :
            ports[p].exists =>
                /\ PlaceRows(p) # {}
                /\ \A i \in PlaceRows(p) :
                      (\A j \in PlaceRows(p) : j <= i) =>
                          outbox[i].event.coordinate = ports[p].coordinate

\* the final guard finds the port of the match missing in the store
StaleDetected == pc = "guard" /\ call'.guard = "stale"

\* C32: after a stale detection the search restarts from the ring search, and
\* when grid-only mode is off and the re-run ring search finds nothing the call
\* goes on to the store fallback instead of ending with NotFound
C32_StaleRestartReachesFallback ==
    [][StaleDetected =>
          /\ call'.searches = call.searches + 1 \/ pc' = "search"
          /\ (~isH3Only /\ call'.nearestPort.portId = NoId) => pc' # "done"]_vars

\* the ports other than p that getPortsByH3Index returns for cell c
OthersInCell(h3, c, p) == IdsOf(getPortsByH3Index(h3, c)) \ {p}

\* the port a step is about: the match a stale detection throws away, or the
\* port of the H3-index-updated event being processed; NoId for other steps
TargetPort ==
    IF StaleDetected THEN call.nearestPort.portId
    ELSE IF pc = "memo" /\ call'.memoCheck = "stale"
    THEN getNearestPortFromCache(nearestCache, call.coordinate,
                                 call.maxRadiusKm).portId
    ELSE IF H3UpdatedStep THEN Head(queues["PortH3IndexUpdated"]).id
    ELSE NoId

\* C33: a stale-detection invalidation or an H3-index-updated relocation of
\* port p removes no other port from any cell entry
C33_OtherPortsKeptInCell ==
    [][TargetPort # NoId =>
          \A c \in Cells :
              OthersInCell(h3Cache, c, TargetPort)
                  \subseteq OthersInCell(h3Cache', c, TargetPort)]_vars

\* the grid distance from the query cell of the call in flight to cell c
RingOf(c) == calculateH3Distance(coordinateToH3(call.coordinate), c)

\* the ring bound of the call in flight: the rings its radius needs, 10 at most
QueryMaxRing ==
    IF IsFinite(call.maxRadiusKm)
    THEN Min((call.maxRadiusKm * 10 + (EdgeHm - 1)) \div EdgeHm, 10) ELSE 10

\* <<c, i>>: the i-th port getPortsByH3Index returns for cell c is eligible
\* for the call in flight and c is within maxRing rings of the query cell
EligibleInIndex ==
    {e \in Cells \X (1..Cardinality(PortIds)) :
        /\ RingOf(e[1]) <= QueryMaxRing
        /\ e[2] <= Len(getPortsByH3Index(h3Cache, e[1]))
        /\ Eligible(getPortsByH3Index(h3Cache, e[1])[e[2]])}

\* C34 as claimed: when the cell index holds a port eligible for the query,
\* the ring search returns a match
C34_EligibleAlwaysFound ==
    [][(pc = "search" /\ EligibleInIndex # {}) =>
          (pc' = "guard" /\ call'.nearestPort.portId # NoId)]_vars

\* C34 as amended: when the cell index holds a port eligible for the query
\* and no ring nearer than that port's holds a port, the ring search returns
\* a match
C34_EligibleInNearestRingFound ==
    [][(/\ pc = "search"
        /\ \E e \in EligibleInIndex :
              \A c \in Cells : RingOf(c) < RingOf(e[1]) =>
                                   getPortsByH3Index(h3Cache, c) = <<>>) =>
          (pc' = "guard" /\ call'.nearestPort.portId # NoId)]_vars

\* a search with a radius bound has returned the port of ring 2, the only one
\* the cache holds
C34_Witness ==
    /\ pc = "guard"
    /\ call.source = "ring"
    /\ IsFinite(call.maxRadiusKm)
    /\ call.nearestPort.h3Distance = 2
    /\ \A c \in Cells : RingOf(c) < 2 => getPortsByH3Index(h3Cache, c) = <<>>

\* port p is in the store, every event about it has been processed, and the
\* cache lists it in the cell of the coordinate the call in flight asks for
SettledInQueryCell(p) ==
    /\ ports[p].exists /\ ports[p].isActive
    /\ ~HasPending(p)
    /\ ports[p].h3Index = coordinateToH3(call.coordinate)
    /\ portCache[p].id = p
    /\ p \in IdsOf(getPortsByH3Index(h3Cache, ports[p].h3Index))

\* C35: once the Created event of port p has been processed and nothing later
\* affects p, a findNearestPort in non-grid-only mode from a coordinate of p's
\* cell, with the broker and the store reachable, returns a match at grid
\* distance 0, whatever was memoized for that coordinate before
C35_NewPortInCellFound ==
    (/\ pc = "done"
     /\ ~isH3Only
     /\ ~call.publishFailed
     /\ call.memoCheck # "unavailable" /\ call.guard # "unavailable"
     /\ \E p \in PortIds : SettledInQueryCell(p)) =>
        (call.outcome = "found" /\ call.nearestPort.h3Distance = 0)

\* C36: processing an Updated event for a port the cache holds keeps the
\* snapshot's code and country, which the event does not carry
C36_UpdatedKeepsCodeAndCountry ==
    [][(/\ HandlerStep("PortUpdated")
        /\ portCache[Head(queues["PortUpdated"]).id].id # NoId) =>
          LET id == Head(queues["PortUpdated"]).id
          IN  /\ portCache'[id].code = portCache[id].code
              /\ portCache'[id].country = portCache[id].country]_vars

\* the Updated and the H3-index-updated event waiting at the heads of their
\* queues are the pair one coordinate-changing updatePort has saved
PairWaiting ==
    /\ pc = "idle"
    /\ Len(queues["PortUpdated"]) = 1
    /\ Len(queues["PortH3IndexUpdated"]) = 1
    /\ queues["PortCreated"] = <<>>
    /\ LET u == Head(queues["PortUpdated"])
           h == Head(queues["PortH3IndexUpdated"])
       IN  /\ u.id = h.id
           /\ coordinateToH3(u.coordinate) = h.h3Index
           /\ ports[u.id].exists /\ ports[u.id].coordinate = u.coordinate
           /\ portCache[u.id].id = u.id
           /\ portCache[u.id].coordinate # u.coordinate

\* C37: the point map and the cell entries after the synchronizer has
\* processed the Updated and the H3-index-updated event of one updatePort are
\* the same whichever of the two it takes first
C37_PairOrderIrrelevant ==
    PairWaiting =>
        LET u == Head(queues["PortUpdated"])
            h == Head(queues["PortH3IndexUpdated"])
            afterU == UpdatedEffect(portCache, h3Cache, u)
            afterH == H3UpdatedEffect(portCache, h3Cache, h)
        IN  H3UpdatedEffect(afterU[1], afterU[2], h)
                = UpdatedEffect(afterH[1], afterH[2], u)

\* C38 as claimed: a port a Created handler has added to the cache while a
\* warmup was in flight is in its cell entry once the warmup has completed
C38_HandlerPortSurvivesWarmup ==
    warm.step = "done" => warm.dropped = {}

\* cell c is out of reach of the warmup steps still to come: the warmup has
\* no group for it, or has already written its entry
WarmupPast(c) ==
    \/ warm.step = "ports" /\ h3Groups(ports, warm.fetched, c) = <<>>
    \/ warm.step = "cells" /\ c \notin Range(warm.cells)

\* C38 as amended: such a port is in its cell entry once the warmup has
\* completed when the warmup has no group for the port's cell, and no step of
\* the warmup takes a port out of a cell the warmup has no group for or has
\* already written
C38_SurvivesOutsideBulkWrite ==
    /\ [](warm.step = "done" =>
             \A p \in warm.dropped :
                 h3Groups(ports, warm.fetched, portCache[p].h3Index) # <<>>)
    /\ [][\A c \in Cells :
             WarmupPast(c) =>
                 IdsOf(getPortsByH3Index(h3Cache, c))
                    \subseteq IdsOf(getPortsByH3Index(h3Cache', c))]_vars

\* a warmup that fetched a port has completed, and a port a handler cached
\* meanwhile is in its cell entry
C38_Witness ==
    /\ warm.step = "done"
    /\ warm.fetched # <<>>
    /\ warm.kept # {}

\* C39: findPortsInRadius(C, R), 0 < R <= 1000 km, returns every active port
\* of the cell index that lies within R (haversine) of C
C39_EveryPortWithinRadiusListed ==
    (Listed /\ call.maxRadiusKm > 0 /\ call.maxRadiusKm <= 1000) =>
        \A c \in Cells :
            LET entry == getPortsByH3Index(h3Cache, c)
            IN  \A i \in 1..Len(entry) :
                    calculateDistance(call.coordinate, entry[i].coordinate)
                        <= call.maxRadiusKm * 1000
                    => \E j \in 1..Len(call.portsInRadius) :
                           call.portsInRadius[j].portId = entry[i].id

Settled(i) ==
    /\ i <= Len(outbox)
    /\ outbox[i].status = "PUBLISHED"
    /\ i \notin Held

====
